---- MODULE Spec2Model ----
(***************************************************************************)
(* Clawsidian: the save pipeline of the article archiver.  URL             *)
(* normalisation and validation, duplicate detection, the on-disk queue    *)
(* and the save orchestrator, modelled from the JavaScript sources.        *)
(*                                                                         *)
(* Strings are sequences of one-character strings, so that the regular     *)
(* expressions and the slicing of the source are computed character by     *)
(* character.                                                              *)
(***************************************************************************)
EXTENDS Integers, Sequences, FiniteSets, TLC

(***************************************************************************)
(* String primitives (JavaScript String methods used by the sources).      *)
(***************************************************************************)
UpperCs == <<"A","B","C","D","E","F","G","H","I","J","K","L","M","N","O","P","Q","R","S","T","U","V","W","X","Y","Z">>

LowerCs == <<"a","b","c","d","e","f","g","h","i","j","k","l","m","n","o","p","q","r","s","t","u","v","w","x","y","z">>

HexCs == <<"0","1","2","3","4","5","6","7","8","9","a","b","c","d","e","f">>

\* JavaScript null, kept comparable with strings: no string holds this token.
Null == <<"(null)">>

ToLowerChar(c) ==
  IF \E k \in 1..26 : UpperCs[k] = c
  THEN LowerCs[CHOOSE k \in 1..26 : UpperCs[k] = c]
  ELSE c

toLowerCase(s) == [i \in 1..Len(s) |-> ToLowerChar(s[i])]

startsWith(s, p) == Len(s) >= Len(p) /\ SubSeq(s, 1, Len(p)) = p

endsWith(s, p) == Len(s) >= Len(p) /\ SubSeq(s, Len(s) - Len(p) + 1, Len(s)) = p

\* index of the first character of s that is in the set C, 0 when there is none
indexOf(s, C) ==
  IF \E i \in 1..Len(s) : s[i] \in C
  THEN CHOOSE i \in 1..Len(s) : s[i] \in C /\ \A j \in 1..(i - 1) : s[j] \notin C
  ELSE 0

slice(s, from) == SubSeq(s, from, Len(s))

IsDigit(c) == c \in {"0", "1", "2", "3", "4", "5", "6", "7", "8", "9"}

IsHexDigit(c) == \E k \in 1..16 : HexCs[k] = ToLowerChar(c)

IsAlpha(c) == \E k \in 1..26 : LowerCs[k] = ToLowerChar(c)

DigitVal(c) == (CHOOSE k \in 1..16 : HexCs[k] = ToLowerChar(c)) - 1

RECURSIVE ParseNum(_, _)
ParseNum(s, radix) ==
  IF s = <<>> THEN 0
  ELSE ParseNum(SubSeq(s, 1, Len(s) - 1), radix) * radix + DigitVal(s[Len(s)])

RECURSIVE NumStr(_, _)
NumStr(n, radix) ==
  IF n < radix THEN <<HexCs[n + 1]>>
  ELSE NumStr(n \div radix, radix) \o <<HexCs[(n % radix) + 1]>>

RECURSIVE split(_, _)
split(s, c) ==
  LET i == indexOf(s, {c})
  IN  IF i = 0 THEN <<s>> ELSE <<SubSeq(s, 1, i - 1)>> \o split(slice(s, i + 1), c)

RECURSIVE join(_, _)
join(parts, sep) ==
  IF Len(parts) = 0 THEN <<>>
  ELSE IF Len(parts) = 1 THEN parts[1]
  ELSE parts[1] \o sep \o join(Tail(parts), sep)

(***************************************************************************)
(* The platform's URL class (WHATWG URL), as far as the sources use it:    *)
(* the parser, the host parser with its IPv4 and IPv6 canonical forms, the *)
(* serialiser and the protocol, hostname, hash and searchParams setters.   *)
(* Inputs are ASCII without credentials, dot segments or characters the    *)
(* parser would percent-encode; IPv4 numbers stay below 2^31.              *)
(***************************************************************************)
\* "parse an IPv4 number" succeeds on p
IsIPv4Number(p) ==
  /\ Len(p) > 0
  /\ IF Len(p) >= 2 /\ p[1] = "0" /\ p[2] \in {"x", "X"}
     THEN \A i \in 3..Len(p) : IsHexDigit(p[i])
     ELSE IF Len(p) >= 2 /\ p[1] = "0"
     THEN \A i \in 2..Len(p) : p[i] \in {"0", "1", "2", "3", "4", "5", "6", "7"}
     ELSE \A i \in 1..Len(p) : IsDigit(p[i])

IPv4Number(p) ==
  IF Len(p) >= 2 /\ p[1] = "0" /\ p[2] \in {"x", "X"} THEN ParseNum(slice(p, 3), 16)
  ELSE IF Len(p) >= 2 /\ p[1] = "0" THEN ParseNum(slice(p, 2), 8)
  ELSE ParseNum(p, 10)

\* the dot-separated parts of a host, a single trailing empty part dropped
IPv4Parts(h) ==
  LET parts == split(h, ".")
  IN  IF Len(parts) > 1 /\ parts[Len(parts)] = <<>>
      THEN SubSeq(parts, 1, Len(parts) - 1)
      ELSE parts

\* the last part is all digits or parses as an IPv4 number
LastIsNumber(last) ==
  \/ Len(last) > 0 /\ \A i \in 1..Len(last) : IsDigit(last[i])
  \/ IsIPv4Number(last)

EndsInNumber(h) == LastIsNumber(IPv4Parts(h)[Len(IPv4Parts(h))])

Pow256(k) == IF k = 0 THEN 1 ELSE IF k = 1 THEN 256 ELSE IF k = 2 THEN 65536 ELSE 16777216

\* the address of up to four numbers, the last one filling the remaining octets
IPv4FromParts(parts) ==
  LET n == Len(parts)
      nums == [i \in 1..Len(parts) |-> IPv4Number(parts[i])]
  IN  IF n > 4 \/ \E i \in 1..n : ~IsIPv4Number(parts[i]) THEN <<>>
      ELSE IF \E i \in 1..(n - 1) : nums[i] > 255 THEN <<>>
      ELSE IF n > 1 /\ nums[n] >= Pow256(5 - n) THEN <<>>
      ELSE [i \in 1..4 |->
              IF i < n THEN nums[i]
              ELSE (nums[n] \div Pow256(4 - i)) % 256]

\* the IPv4 parser: four octets, or <<>> on failure
ParseIPv4(h) == IPv4FromParts(IPv4Parts(h))

SerializeIPv4(o) ==
  NumStr(o[1], 10) \o <<".">> \o NumStr(o[2], 10) \o <<".">> \o
  NumStr(o[3], 10) \o <<".">> \o NumStr(o[4], 10)

IsIPv6Piece(p) == Len(p) \in 1..4 /\ \A i \in 1..Len(p) : IsHexDigit(p[i])

\* a dotted-decimal IPv4 tail inside an IPv6 literal
IsIPv6V4Tail(p) ==
  LET parts == split(p, ".")
  IN  /\ Len(parts) = 4
      /\ \A i \in 1..4 :
           /\ Len(parts[i]) \in 1..3
           /\ \A j \in 1..Len(parts[i]) : IsDigit(parts[i][j])
           /\ (Len(parts[i]) > 1 => parts[i][1] # "0")
           /\ ParseNum(parts[i], 10) <= 255

\* the 16-bit pieces of the colon-separated parts; <<-1>> on failure
IPv6PiecesOf(parts) ==
  LET n == Len(parts)
      tail == IsIPv6V4Tail(parts[n])
      m == IF tail THEN n - 1 ELSE n
      o == split(parts[n], ".")
  IN  IF \E i \in 1..m : ~IsIPv6Piece(parts[i]) THEN <<-1>>
      ELSE [i \in 1..m |-> ParseNum(parts[i], 16)] \o
           (IF tail
            THEN <<ParseNum(o[1], 10) * 256 + ParseNum(o[2], 10),
                   ParseNum(o[3], 10) * 256 + ParseNum(o[4], 10)>>
            ELSE <<>>)

\* the 16-bit pieces named by a colon-separated list; <<-1>> on failure
IPv6Pieces(s) == IF s = <<>> THEN <<>> ELSE IPv6PiecesOf(split(s, ":"))

\* an address written without "::" has eight pieces
IPv6Full(p) == IF Len(p) = 8 /\ p[1] # -1 THEN p ELSE <<>>

\* the pieces left and right of "::", with the zero pieces between them
IPv6Compressed(l, r) ==
  IF (Len(l) > 0 /\ l[1] = -1) \/ (Len(r) > 0 /\ r[1] = -1) THEN <<>>
  ELSE IF Len(l) + Len(r) > 7 THEN <<>>
  ELSE l \o [i \in 1..(8 - Len(l) - Len(r)) |-> 0] \o r

\* the IPv6 parser: eight pieces, or <<>> on failure
ParseIPv6(s) ==
  LET dc == IF \E i \in 1..(Len(s) - 1) : s[i] = ":" /\ s[i + 1] = ":"
            THEN CHOOSE i \in 1..(Len(s) - 1) :
                   /\ s[i] = ":" /\ s[i + 1] = ":"
                   /\ \A j \in 1..(i - 1) : ~(s[j] = ":" /\ s[j + 1] = ":")
            ELSE 0
  IN  IF dc = 0 THEN IPv6Full(IPv6Pieces(s))
      ELSE IPv6Compressed(IPv6Pieces(SubSeq(s, 1, dc - 1)), IPv6Pieces(slice(s, dc + 2)))

RECURSIVE ZeroRun(_, _)
ZeroRun(p, i) == IF i <= 8 /\ p[i] = 0 THEN 1 + ZeroRun(p, i + 1) ELSE 0

RECURSIVE SerializeIPv6From(_, _, _, _)
SerializeIPv6From(p, i, compress, run) ==
  IF i > 8 THEN <<>>
  ELSE IF i = compress
  THEN (IF i = 1 THEN <<":", ":">> ELSE <<":">>) \o SerializeIPv6From(p, i + run, compress, run)
  ELSE NumStr(p[i], 16) \o (IF i # 8 THEN <<":">> ELSE <<>>) \o
       SerializeIPv6From(p, i + 1, compress, run)

\* the IPv6 serialiser: the first longest run of two or more zero pieces is "::"
SerializeIPv6(p) ==
  LET best == CHOOSE n \in 0..8 :
                /\ \E i \in 1..8 : ZeroRun(p, i) = n
                /\ \A i \in 1..8 : ZeroRun(p, i) <= n
      compress == IF best >= 2
                  THEN CHOOSE i \in 1..8 :
                         ZeroRun(p, i) = best /\ \A j \in 1..(i - 1) : ZeroRun(p, j) < best
                  ELSE 0
  IN  SerializeIPv6From(p, 1, compress, best)

ForbiddenHostCs ==
  {" ", "#", "/", ":", "<", ">", "?", "@", "[", "\\", "]", "^", "|", "%"}

HostOfIPv6(p) == IF p = <<>> THEN Null ELSE <<"[">> \o SerializeIPv6(p) \o <<"]">>

HostOfIPv4(o) == IF o = <<>> THEN Null ELSE SerializeIPv4(o)

\* the host parser for special schemes: the serialised host, or Null on failure
ParseHost(h) ==
  IF h = <<>> THEN Null
  ELSE IF h[1] = "["
  THEN IF h[Len(h)] # "]" THEN Null
       ELSE HostOfIPv6(ParseIPv6(SubSeq(h, 2, Len(h) - 1)))
  ELSE LET d == toLowerCase(h)
       IN  IF \E i \in 1..Len(d) : d[i] \in ForbiddenHostCs THEN Null
           ELSE IF EndsInNumber(d) THEN HostOfIPv4(ParseIPv4(d))
           ELSE d

SpecialSchemes == {<<"h","t","t","p">>, <<"h","t","t","p","s">>, <<"f","t","p">>, <<"w","s">>, <<"w","s","s">>, <<"f","i","l","e">>}

DefaultPort(scheme) ==
  IF scheme \in {<<"h","t","t","p">>, <<"w","s">>} THEN <<"8","0">>
  ELSE IF scheme \in {<<"h","t","t","p","s">>, <<"w","s","s">>} THEN <<"4","4","3">>
  ELSE IF scheme = <<"f","t","p">> THEN <<"2","1">>
  ELSE Null

ParseFailure == [ok |-> FALSE]

\* the port of an authority: Null when empty or the scheme's default, <<"!">> on failure
ParsePort(p, scheme) ==
  IF p = <<>> THEN Null
  ELSE IF Len(p) > 5 \/ \E i \in 1..Len(p) : ~IsDigit(p[i]) THEN <<"!">>
  ELSE IF ParseNum(p, 10) > 65535 THEN <<"!">>
  ELSE LET s == NumStr(ParseNum(p, 10), 10)
       IN  IF s = DefaultPort(scheme) THEN Null ELSE s

\* the URL record of a special scheme, once host and port are parsed
MakeURL(scheme, host, port, rawPath, query, fragment) ==
  IF host = Null \/ port = <<"!">> THEN ParseFailure
  ELSE [ok |-> TRUE, scheme |-> scheme, special |-> TRUE, host |-> host, port |-> port,
        path |-> [i \in 1..Len(rawPath) |-> IF rawPath[i] = "\\" THEN "/" ELSE rawPath[i]],
        query |-> query, fragment |-> fragment]

\* the authority: a host, bracketed when it is an IPv6 literal, and a port
ParseAuthority(scheme, authority, rawPath, query, fragment) ==
  LET e == IF Len(authority) > 0 /\ authority[1] = "["
           THEN indexOf(authority, {"]"})
           ELSE 0
      k == IF e = 0 THEN indexOf(authority, {":"})
           ELSE IF e = Len(authority) THEN 0 ELSE e + 1
  IN  IF k # 0 /\ authority[k] # ":" THEN ParseFailure
      ELSE MakeURL(scheme,
                   ParseHost(IF k = 0 THEN authority ELSE SubSeq(authority, 1, k - 1)),
                   ParsePort(IF k = 0 THEN <<>> ELSE slice(authority, k + 1), scheme),
                   rawPath, query, fragment)

\* what follows the slashes of a special URL: the authority up to the next slash, the path
ParseAfterSlashes(scheme, after, query, fragment) ==
  LET p == indexOf(after, {"/", "\\"})
  IN  ParseAuthority(scheme,
                     IF p = 0 THEN after ELSE SubSeq(after, 1, p - 1),
                     IF p = 0 THEN <<"/">> ELSE slice(after, p),
                     query, fragment)

\* scheme, query and fragment are split off: an opaque path, or slashes and an authority
ParseAfterQuery(scheme, noQuery, query, fragment) ==
  IF scheme \notin SpecialSchemes
  THEN [ok |-> TRUE, scheme |-> scheme, special |-> FALSE, host |-> <<>>,
        port |-> Null, path |-> noQuery, query |-> query, fragment |-> fragment]
  ELSE LET s == IF \E i \in 1..Len(noQuery) : noQuery[i] \notin {"/", "\\"}
                THEN CHOOSE i \in 1..Len(noQuery) :
                       /\ noQuery[i] \notin {"/", "\\"}
                       /\ \A j \in 1..(i - 1) : noQuery[j] \in {"/", "\\"}
                ELSE Len(noQuery) + 1
       IN  ParseAfterSlashes(scheme, slice(noQuery, s), query, fragment)

\* the query is what follows the first "?"
ParseBeforeFragment(scheme, noFrag, fragment) ==
  LET q == indexOf(noFrag, {"?"})
  IN  ParseAfterQuery(scheme,
                      IF q = 0 THEN noFrag ELSE SubSeq(noFrag, 1, q - 1),
                      IF q = 0 THEN Null ELSE slice(noFrag, q + 1),
                      fragment)

\* the fragment is what follows the first "#"
ParseAfterScheme(scheme, rest) ==
  LET h == indexOf(rest, {"#"})
  IN  ParseBeforeFragment(scheme,
                          IF h = 0 THEN rest ELSE SubSeq(rest, 1, h - 1),
                          IF h = 0 THEN Null ELSE slice(rest, h + 1))

\* new URL(raw), without a base: a URL record, or ParseFailure when it throws
ParseURL(raw) ==
  LET c == indexOf(raw, {":"})
  IN  IF c <= 1 THEN ParseFailure
      ELSE IF ~IsAlpha(raw[1]) \/
              \E i \in 2..(c - 1) : ~(IsAlpha(raw[i]) \/ IsDigit(raw[i]) \/ raw[i] \in {"+", "-", "."})
      THEN ParseFailure
      ELSE ParseAfterScheme(toLowerCase(SubSeq(raw, 1, c - 1)), slice(raw, c + 1))

\* url.toString() / url.href
href(u) ==
  (IF u.special
   THEN u.scheme \o <<":", "/", "/">> \o u.host \o
        (IF u.port = Null THEN <<>> ELSE <<":">> \o u.port)
   ELSE u.scheme \o <<":">>) \o
  u.path \o
  (IF u.query = Null THEN <<>> ELSE <<"?">> \o u.query) \o
  (IF u.fragment = Null THEN <<>> ELSE <<"#">> \o u.fragment)

\* url.protocol = value: ignored when it would change between special and not
SetProtocol(u, value) ==
  LET c == indexOf(value, {":"})
      scheme == toLowerCase(IF c = 0 THEN value ELSE SubSeq(value, 1, c - 1))
  IN  IF (scheme \in SpecialSchemes) # u.special THEN u
      ELSE [u EXCEPT !.scheme = scheme,
                     !.port = IF u.port = DefaultPort(scheme) THEN Null ELSE u.port]

WithHost(u, host) == IF host = Null THEN u ELSE [u EXCEPT !.host = host]

\* url.hostname = value: ignored on an opaque path, an empty value, a colon or a bad host
SetHostname(u, value) ==
  IF ~u.special THEN u
  ELSE LET e == indexOf(value, {"/", "\\", "?", "#"})
           buffer == IF e = 0 THEN value ELSE SubSeq(value, 1, e - 1)
       IN  IF buffer = <<>> THEN u
           ELSE IF buffer[1] # "[" /\ indexOf(buffer, {":"}) # 0 THEN u
           ELSE WithHost(u, ParseHost(buffer))

\* url.hash = '': the fragment is removed
ClearHash(u) == [u EXCEPT !.fragment = Null]

(***************************************************************************)
(* url.searchParams: the application/x-www-form-urlencoded parser and      *)
(* serialiser.  A parameter is a pair <<name, value>>.                     *)
(***************************************************************************)
\* characters the serialiser percent-encodes, with their two hex digits
PercentCodes ==
  [c \in {"/", ":", "=", "&", "+", "%", "?", "#", "@", ",", "!", "~", "$", ";"} |->
     CASE c = "/" -> <<"2","F">> [] c = ":" -> <<"3","A">> [] c = "=" -> <<"3","D">> [] c = "&" -> <<"2","6">>
       [] c = "+" -> <<"2","B">> [] c = "%" -> <<"2","5">> [] c = "?" -> <<"3","F">> [] c = "#" -> <<"2","3">>
       [] c = "@" -> <<"4","0">> [] c = "," -> <<"2","C">> [] c = "!" -> <<"2","1">> [] c = "~" -> <<"7","E">>
       [] c = "$" -> <<"2","4">> [] c = ";" -> <<"3","B">>]

RECURSIVE PercentDecode(_)
PercentDecode(s) ==
  IF s = <<>> THEN <<>>
  ELSE IF s[1] = "+" THEN <<" ">> \o PercentDecode(Tail(s))
  ELSE IF s[1] = "%" /\ Len(s) >= 3 /\
          \E c \in DOMAIN PercentCodes :
            PercentCodes[c] = <<s[2], s[3]>> \/ toLowerCase(PercentCodes[c]) = <<s[2], s[3]>>
  THEN <<CHOOSE c \in DOMAIN PercentCodes :
            PercentCodes[c] = <<s[2], s[3]>> \/ toLowerCase(PercentCodes[c]) = <<s[2], s[3]>>>>
       \o PercentDecode(slice(s, 4))
  ELSE <<s[1]>> \o PercentDecode(Tail(s))

RECURSIVE PercentEncode(_)
PercentEncode(s) ==
  IF s = <<>> THEN <<>>
  ELSE (IF s[1] = " " THEN <<"+">>
        ELSE IF s[1] \in DOMAIN PercentCodes THEN <<"%">> \o PercentCodes[s[1]]
        ELSE <<s[1]>>) \o PercentEncode(Tail(s))

RECURSIVE ParsePairs(_)
ParsePairs(parts) ==
  IF Len(parts) = 0 THEN <<>>
  ELSE LET p == parts[1]
           e == indexOf(p, {"="})
           name == IF e = 0 THEN p ELSE SubSeq(p, 1, e - 1)
           value == IF e = 0 THEN <<>> ELSE slice(p, e + 1)
       IN  (IF p = <<>> THEN <<>> ELSE << <<PercentDecode(name), PercentDecode(value)>> >>)
           \o ParsePairs(Tail(parts))

\* the list of name-value pairs of a query
searchParams(u) == IF u.query = Null THEN <<>> ELSE ParsePairs(split(u.query, "&"))

SerializePairs(pairs) ==
  join([i \in 1..Len(pairs) |->
          PercentEncode(pairs[i][1]) \o <<"=">> \o PercentEncode(pairs[i][2])], <<"&">>)

\* url.searchParams.delete(key): every pair of that name goes, the query is rewritten
DeleteParam(u, key) ==
  LET kept == SelectSeq(searchParams(u), LAMBDA p : p[1] # key)
  IN  [u EXCEPT !.query = IF Len(kept) = 0 THEN Null ELSE SerializePairs(kept)]

(***************************************************************************)
(* lib/normalize.js                                                        *)
(***************************************************************************)
TRACKING_PARAMS ==
  {<<"u","t","m","_","s","o","u","r","c","e">>, <<"u","t","m","_","m","e","d","i","u","m">>, <<"u","t","m","_","c","a","m","p","a","i","g","n">>, <<"u","t","m","_","t","e","r","m">>, <<"u","t","m","_","c","o","n","t","e","n","t">>,
   <<"r","e","f">>, <<"s","o","u","r","c","e">>, <<"s","m","i","d">>, <<"f","b","c","l","i","d">>, <<"g","c","l","i","d">>, <<"m","c","_","c","i","d">>, <<"m","c","_","e","i","d">>,
   <<"o","c","i","d">>, <<"i","c","i","d">>, <<"n","c","i","d">>, <<"s","r","_","s","h","a","r","e">>, <<"_","h","s","e","n","c">>, <<"_","h","s","m","i">>}

IsTrackingKey(key) == key \in TRACKING_PARAMS \/ startsWith(key, <<"u","t","m","_">>)

\* hostname.replace(/^www\./, '')
StripWww(hostname) == IF startsWith(hostname, <<"w","w","w",".">>) THEN slice(hostname, 5) ELSE hostname

\* for (const key of [...url.searchParams.keys()]) if (tracking) delete(key)
RECURSIVE StripTracking(_, _)
StripTracking(u, keys) ==
  IF Len(keys) = 0 THEN u
  ELSE StripTracking(IF IsTrackingKey(keys[1]) THEN DeleteParam(u, keys[1]) ELSE u, Tail(keys))

\* result.endsWith('/') && url.pathname !== '/' ? result.slice(0, -1) : result
StripTrailingSlash(result, pathname) ==
  IF endsWith(result, <<"/">>) /\ pathname # <<"/">>
  THEN SubSeq(result, 1, Len(result) - 1)
  ELSE result

\* let result = url.toString(); the trailing slash goes unless the path is the root
BuildCleanUrl(url) == StripTrailingSlash(href(url), url.path)

\* the tracking parameters are stripped, then url.hash = ''
StripTrackingParams(url) ==
  LET sp == searchParams(url)
  IN  BuildCleanUrl(ClearHash(StripTracking(url, [i \in 1..Len(sp) |-> sp[i][1]])))

\* url.hostname = url.hostname.toLowerCase()
LowercaseHostname(url) == StripTrackingParams(SetHostname(url, toLowerCase(url.host)))

\* url.hostname = url.hostname.replace(/^www\./, '')
RemoveWwwPrefix(url) == LowercaseHostname(SetHostname(url, StripWww(url.host)))

\* url.protocol = 'https:', on the URL that new URL(rawUrl) returned
ForceHttps(url) ==
  IF ~url.ok THEN Null ELSE RemoveWwwPrefix(SetProtocol(url, <<"h","t","t","p","s",":">>))

\* normalizeUrl that gives up on a URL whose scheme is not already https
normalizeUrlHttpsOnly(rawUrl) ==
  LET url == ParseURL(rawUrl)
  IN  IF url.ok /\ url.scheme = <<"h","t","t","p","s">> THEN ForceHttps(url) ELSE Null

normalizeUrl(rawUrl) == ForceHttps(ParseURL(rawUrl))

BLOCKED_HOSTNAMES == {<<"l","o","c","a","l","h","o","s","t">>, <<"0",".","0",".","0",".","0">>, <<"[",":",":","1","]">>, <<"[",":",":","0","]">>}

BLOCKED_SUFFIXES == {<<".","l","o","c","a","l">>, <<".","i","n","t","e","r","n","a","l">>, <<".","l","o","c","a","l","h","o","s","t">>, <<".","a","r","p","a">>}

\* hostname with an optional leading "[" removed: the \[? of the patterns
AfterBracket(h) == IF Len(h) > 0 /\ h[1] = "[" THEN Tail(h) ELSE h

\* PRIVATE_IP_PATTERNS.some(re => re.test(hostname))
MatchesPrivateIp(h) ==
  \/ startsWith(h, <<"1","2","7",".">>)
  \/ startsWith(h, <<"1","0",".">>)
  \/ /\ startsWith(h, <<"1","7","2",".">>)
     /\ Len(h) >= 7
     /\ \/ h[5] = "1" /\ h[6] \in {"6", "7", "8", "9"}
        \/ h[5] = "2" /\ IsDigit(h[6])
        \/ h[5] = "3" /\ h[6] \in {"0", "1"}
     /\ h[7] = "."
  \/ startsWith(h, <<"1","9","2",".","1","6","8",".">>)
  \/ startsWith(h, <<"1","6","9",".","2","5","4",".">>)
  \/ startsWith(h, <<"0",".">>)
  \/ h \in {<<":",":","1">>, <<"[",":",":","1">>, <<":",":","1","]">>, <<"[",":",":","1","]">>}
  \/ startsWith(toLowerCase(AfterBracket(h)), <<"f","e","8","0",":">>)
  \/ startsWith(toLowerCase(AfterBracket(h)), <<"f","c">>)
  \/ startsWith(toLowerCase(AfterBracket(h)), <<"f","d">>)

\* /^\d+$/.test(hostname) || /^0x[0-9a-f]+$/i.test(hostname)
IsNumericHost(h) ==
  \/ Len(h) > 0 /\ \A i \in 1..Len(h) : IsDigit(h[i])
  \/ /\ Len(h) >= 3
     /\ h[1] = "0" /\ h[2] \in {"x", "X"}
     /\ \A i \in 3..Len(h) : IsHexDigit(h[i])

\* the tests of isValidUrl on the URL that new URL(str) returned
IsValidParsed(url) ==
  IF ~url.ok THEN FALSE
  ELSE IF url.scheme \notin {<<"h","t","t","p">>, <<"h","t","t","p","s">>} THEN FALSE
  ELSE LET hostname == toLowerCase(url.host)
       IN  /\ hostname \notin BLOCKED_HOSTNAMES
           /\ ~\E suffix \in BLOCKED_SUFFIXES : endsWith(hostname, suffix)
           /\ ~MatchesPrivateIp(hostname)
           /\ ~IsNumericHost(hostname)

isValidUrl(str) == IsValidParsed(ParseURL(str))

DomainOfParsed(parsed) == IF ~parsed.ok THEN Null ELSE toLowerCase(StripWww(parsed.host))

extractDomain(url) == DomainOfParsed(ParseURL(url))

(***************************************************************************)
(* Bounds of the model and the inputs the operations are run on.           *)
(***************************************************************************)
\* the latest day the commands may run on
MaxNow == 1

\* the documents the vault may hold
MaxDocs == 2

\* raw URLs given to the save and queue commands
Urls ==
  {<<"h","t","t","p",":","/","/","w","w","w",".","e",".","c","o","/","a","/","?","u","t","m","_","s","o","u","r","c","e","=","x">>, <<"h","t","t","p","s",":","/","/","e",".","c","o","/","b",":">>, <<"h","t","t","p",":","/","/","1","0",".","0",".","0",".","5","/">>}

\* titles the fetched pages carry
Titles == {<<"F","o","o">>}

\* what --tags is given as: nothing, or a comma-separated list
TagOptions == {Null, <<"A","I",","," ","m","l">>}

\* what extractKeywords finds in the rendered body of the page at a url: a
\* body of few words gives no keyword
extractKeywords(url) == IF url = <<"h","t","t","p","s",":","/","/","e",".","c","o","/","b",":">> THEN <<>> ELSE <<<<"f","o","o">>>>

\* the first eight characters of randomUUID()
Uuids == {<<"1","a","2","b","3","c","4","d">>, <<"9","e","8","f","7","a","6","b">>}

VARIABLES
  files,    \* the Articles directory of the vault: file name -> content
  now,      \* the day the commands run on, counted from 2026-02-15
  cmd,      \* the running invocation: "idle", "save", "queue" or "process"
  pc,       \* the await the invocation is suspended at
  values,   \* the parsed command-line options
  loc,      \* the local variables of the running functions
  out,      \* what the last invocation printed, with its exit code
  hist,     \* history of the current save attempt and of the last queue persist
  rawUrl,   \* the input of the URL functions under test
  urlOut,   \* their results
  call,     \* a call of a library function on its own: its arguments and result
  tagsArg   \* the --tags option the caller passes, the same on every invocation

vars == <<files, now, cmd, pc, values, loc, out, hist, rawUrl, urlOut, call, tagsArg>>

(***************************************************************************)
(* lib/queue.js                                                            *)
(***************************************************************************)
\* queuePath(vaultPath), relative to the Articles directory
queuePath == <<".","q","u","e","u","e",".","j","s","o","n">>

\* a persist that writes the queue file in place
tmpPathOfInPlace(filepath, uuid) == filepath

\* filepath + '.' + randomUUID().slice(0, 8) + '.tmp'
tmpPathOf(filepath, uuid) == filepath \o <<".">> \o uuid \o <<".","t","m","p">>

\* item && typeof item === 'object' && typeof item.url === 'string'
IsQueueItem(item) == "url" \in DOMAIN item

\* a queue file that parses whatever it holds
ParsesAlways(content) == content.kind \in {"json", "value"}

\* JSON.parse(data) returns: the file holds the whole text of a JSON value
ParsesAsJson(content) ==
  \/ content.kind = "json" /\ content.intact
  \/ content.kind = "value"

\* Array.isArray(parsed)
IsArray(content) == content.kind = "json"

\* readQueue: [] when the file is missing, does not parse or is not a list
readQueue(fs) ==
  IF queuePath \notin DOMAIN fs THEN <<>>
  ELSE IF ~ParsesAsJson(fs[queuePath]) THEN <<>>
  ELSE IF ~IsArray(fs[queuePath]) THEN <<>>
  ELSE SelectSeq(fs[queuePath].items, IsQueueItem)

\* new Date().toISOString()
isoNow(t) == <<"2","0","2","6","-","0","2","-">> \o NumStr(15 + t, 10) \o <<"T","0","0",":","0","0",":","0","0",".","0","0","0","Z">>

\* new Date().toISOString().split('T')[0]
today(t) == split(isoNow(t), "T")[1]

\* JSON.stringify(items, null, 2) as written so far: a prefix does not parse
JsonFile(items, intact) == [kind |-> "json", items |-> items, intact |-> intact]

\* a file that holds the text of a JSON value that is not a list
JsonValueFile(type) == [kind |-> "value", type |-> type]

\* a file that holds text that is no JSON
TextFile == [kind |-> "text"]

(***************************************************************************)
(* lib/frontmatter.js and lib/duplicate.js                                 *)
(***************************************************************************)
\* yaml stringify of a string scalar: plain unless YAML could not read it back
\* (empty, a leading indicator, ": " or " #" inside, a trailing space or colon)
YamlString(s) ==
  IF \/ Len(s) = 0
     \/ s[1] \in {" ", ",", "[", "]", "{", "}", "#", "&", "*", "!", "|", ">", "'", "\"", "%", "@"}
     \/ s \in {<<"?">>, <<"-">>}
     \/ Len(s) >= 2 /\ s[1] \in {"?", "-"} /\ s[2] = " "
     \/ \E i \in 1..(Len(s) - 1) : s[i] = ":" /\ s[i + 1] = " "
     \/ \E i \in 1..(Len(s) - 1) : s[i] = " " /\ s[i + 1] = "#"
     \/ s[Len(s)] \in {" ", ":"}
  THEN <<"\"">> \o s \o <<"\"">>
  ELSE s

\* s.trim()
RECURSIVE trim(_)
trim(s) ==
  IF Len(s) > 0 /\ s[1] = " " THEN trim(Tail(s))
  ELSE IF Len(s) > 0 /\ s[Len(s)] = " " THEN trim(SubSeq(s, 1, Len(s) - 1))
  ELSE s

\* a header of the url, the tags and the status as they are handed in
buildFrontmatterBare(f) ==
  << <<"url", YamlString(f.url)>>, <<"tags", f.tags>>, <<"status", f.status>> >>

\* buildFrontmatter: the lines of the header block, in the order they are set
buildFrontmatter(f) ==
  << <<"url", YamlString(f.url)>>,
     <<"saved", today(f.now)>>,
     <<"title", YamlString(IF Len(f.title) > 0 THEN f.title ELSE <<"U","n","t","i","t","l","e","d">>)>>,
     <<"source", YamlString(IF f.source # Null /\ Len(f.source) > 0 THEN f.source ELSE <<"U","n","k","n","o","w","n">>)>> >>
  \o (IF f.author # Null THEN << <<"author", YamlString(f.author)>> >> ELSE <<>>)
  \o (IF f.published # Null THEN << <<"published", f.published>> >> ELSE <<>>)
  \o << <<"tags", IF f.tags # Null /\ Len(f.tags) > 0 THEN f.tags ELSE <<<<"u","n","t","a","g","g","e","d">>>> >>,
        <<"status", f.status>> >>
  \o (IF f.warning # Null THEN << <<"warning", f.warning>> >> ELSE <<>>)

\* the text after "key:" on the first header line of that key, Null when absent
HeaderField(fm, key) ==
  IF \E i \in 1..Len(fm) : fm[i][1] = key
  THEN fm[CHOOSE i \in 1..Len(fm) : fm[i][1] = key /\ \A j \in 1..(i - 1) : fm[j][1] # key][2]
  ELSE Null

\* a scan that gives up at a file it cannot read or that has no header
DuplicatesOfStrict(normalizedUrl, fs) ==
  IF \E f \in DOMAIN fs : endsWith(f, <<".","m","d">>) /\ fs[f].kind # "md" THEN {}
  ELSE {f \in DOMAIN fs :
          /\ endsWith(f, <<".","m","d">>)
          /\ HeaderField(fs[f].fm, "url") # Null
          /\ trim(HeaderField(fs[f].fm, "url")) = normalizedUrl}

\* the .md files whose header has a url field equal to normalizedUrl
DuplicatesOf(normalizedUrl, fs) ==
  {f \in DOMAIN fs :
     /\ endsWith(f, <<".","m","d">>)
     /\ fs[f].kind = "md"
     /\ HeaderField(fs[f].fm, "url") # Null
     /\ trim(HeaderField(fs[f].fm, "url")) = normalizedUrl}

(***************************************************************************)
(* lib/slugify.js: generateReadableTitle and generateFilename              *)
(***************************************************************************)
ControlCs == {"\t", "\n", "\r"}

IllegalFilenameCs == {"/", "\\", ":", "*", "?", "\"", "<", ">", "|"}

RECURSIVE TrimHyphens(_)
TrimHyphens(s) ==
  IF Len(s) > 0 /\ s[1] = "-" THEN TrimHyphens(Tail(s))
  ELSE IF Len(s) > 0 /\ s[Len(s)] = "-" THEN TrimHyphens(SubSeq(s, 1, Len(s) - 1))
  ELSE s

\* a run of spaces becomes one space: a space with a space behind it is dropped
CollapseSpaces(s) ==
  LET pairs == [i \in 1..Len(s) |-> <<s[i], IF i < Len(s) THEN s[i + 1] ELSE "">>]
      kept == SelectSeq(pairs, LAMBDA p : ~(p[1] = " " /\ p[2] = " "))
  IN  [i \in 1..Len(kept) |-> kept[i][1]]

\* a readable title that keeps the characters a file name may not hold
generateReadableTitleKeeps(title) ==
  IF title = Null \/ Len(title) = 0 THEN Null
  ELSE LET c == SelectSeq(title, LAMBDA ch : ch \notin ControlCs)
           b == trim(TrimHyphens(CollapseSpaces(c)))
       IN  SubSeq(b, 1, IF Len(b) < 120 THEN Len(b) ELSE 120)

generateReadableTitle(title) ==
  IF title = Null \/ Len(title) = 0 THEN Null
  ELSE LET c == SelectSeq(title, LAMBDA ch : ch \notin ControlCs)
           a == [i \in 1..Len(c) |-> IF c[i] \in IllegalFilenameCs THEN "-" ELSE c[i]]
           b == trim(TrimHyphens(CollapseSpaces(a)))
       IN  SubSeq(b, 1, IF Len(b) < 120 THEN Len(b) ELSE 120)

\* a fallback that passes over the domain
OrElseNameNoDomain(r, domain) ==
  IF r # Null /\ Len(r) > 0 THEN r ELSE <<"U","n","t","i","t","l","e","d"," ","A","r","t","i","c","l","e">>

\* the title for the name: the readable title, else the domain, else a fixed text
OrElseName(r, domain) ==
  IF r # Null /\ Len(r) > 0 THEN r
  ELSE IF domain # Null /\ Len(domain) > 0 THEN domain
  ELSE <<"U","n","t","i","t","l","e","d"," ","A","r","t","i","c","l","e">>

\* a probe that takes the next counter whether or not its path is free
FreeNameUnprobed(basename, counter, fs) ==
  basename \o <<"-">> \o NumStr(counter, 10) \o <<".","m","d">>

RECURSIVE FreeName(_, _, _)
\* while (existsSync(filepath)) { filename = `${basename}-${counter}.md`; counter++ }
FreeName(basename, counter, fs) ==
  LET filename == basename \o <<"-">> \o NumStr(counter, 10) \o <<".","m","d">>
  IN  IF filename \in DOMAIN fs THEN FreeName(basename, counter + 1, fs) ELSE filename

\* a file name that is taken without a look at the directory
generateFilenameNoProbe(title, domain, t, fs) ==
  OrElseName(generateReadableTitle(title), domain) \o <<" ","(">> \o today(t) \o <<")",".","m","d">>

generateFilename(title, domain, t, fs) ==
  LET basename == OrElseName(generateReadableTitle(title), domain) \o <<" ","(">> \o today(t) \o <<")">>
  IN  IF basename \o <<".","m","d">> \in DOMAIN fs THEN FreeName(basename, 2, fs)
      ELSE basename \o <<".","m","d">>

(***************************************************************************)
(* lib/fetcher.js, seen from the orchestrator: what fetchArticle(url) does *)
(* is the environment's choice.                                            *)
(***************************************************************************)
\* a message that does not tell the statuses apart
httpErrorMessageGeneric(status) == <<"H","T","T","P"," ","e","r","r","o","r">>

httpErrorMessage(status) ==
  IF status = 404 THEN <<"P","a","g","e"," ","n","o","t"," ","f","o","u","n","d"," ","(","4","0","4",")">>
  ELSE IF status = 503 THEN <<"S","e","r","v","i","c","e"," ","u","n","a","v","a","i","l","a","b","l","e"," ","(","5","0","3",")">>
  ELSE <<"H","T","T","P"," ","e","r","r","o","r"," ","(">> \o NumStr(status, 10) \o <<")">>

NoMeta == [ogTitle |-> Null, titleTag |-> Null, h1 |-> Null]

\* the values fetchArticle returns, and the errors it throws
FetchOutcomes ==
  {[throws |-> "TimeoutError"], [throws |-> "TypeError"]}
  \cup {[throws |-> "", success |-> FALSE, status |-> s, error |-> httpErrorMessage(s),
         partial |-> FALSE, hasMeta |-> FALSE] : s \in {404, 418}}
  \cup {[throws |-> "", success |-> FALSE, status |-> 200, error |-> <<"N","o"," ","c","o","n","t","e","n","t"," ","c","o","u","l","d"," ","b","e"," ","e","x","t","r","a","c","t","e","d">>,
         partial |-> p, hasMeta |-> TRUE, meta |-> [NoMeta EXCEPT !.ogTitle = t]] :
           p \in BOOLEAN, t \in Titles}
  \cup {[throws |-> "", success |-> TRUE, status |-> 200, title |-> t] : t \in Titles}

\* a partial save without its warning
NoWarning == Null

PARTIAL_WARNING == <<"Content may be incomplete due to paywall or access restriction">>

(***************************************************************************)
(* clawsidian.js: the save command                                         *)
(***************************************************************************)
NoLocals ==
  [url |-> <<>>, normalizedUrl |-> Null, domain |-> Null, filename |-> <<>>,
   fetchResult |-> [throws |-> "unset"], fileContent |-> Null, result |-> Null, queue |-> <<>>, idx |-> 0,
   results |-> <<>>, failedItems |-> <<>>, tmpPath |-> <<>>, data |-> <<>>]

NoOutput == [kind |-> "none"]

NoCall == [fn |-> "none"]

\* history of one saveUrl call: the steps it ran and the vault it started from
\* and the documents saved before it (normalized URL and file of the first save)
NewAttempt(h, fs) == [h EXCEPT !.trace = <<>>, !.before = fs, !.prior = h.saved]

\* history of one atomicWrite: how far it got, the queue stored when it began,
\* the queue it is to store and its temporary file
NoPersist == [phase |-> "none", before |-> <<>>, data |-> <<>>, tmpPath |-> <<>>]

\* aborted: the normalized URLs of the documents stored by batches that an
\* unexpected error ended
NoHistory ==
  [trace |-> <<>>, before |-> <<>>, prior |-> {}, aw |-> NoPersist, saved |-> {}, aborted |-> {}]

Init ==
  /\ files = <<>>
  /\ now = 0
  /\ cmd = "idle"
  /\ pc = "idle"
  /\ values = [dry_run |-> FALSE, tags |-> Null]
  /\ loc = NoLocals
  /\ out = NoOutput
  /\ hist = NoHistory
  /\ rawUrl = <<>>
  /\ urlOut = [phase |-> "off"]
  /\ call = NoCall
  /\ tagsArg \in TagOptions

Docs(fs) == {f \in DOMAIN fs : fs[f].kind = "md"}

\* writeFile(path, content): the file is created or replaced
WriteTo(fs, path, content) ==
  [p \in DOMAIN fs \cup {path} |-> IF p = path THEN content ELSE fs[p]]

\* unlink(path) of an existing file, and the source of a rename
Remove(fs, path) == [p \in DOMAIN fs \ {path} |-> fs[p]]

\* a spread that loses the new field
WithNothing(r, key, value) == r

\* a spread that marks the copy as a duplicate as well
WithDuplicateFlag(r, key, value) ==
  [f \in DOMAIN r \cup {key, "duplicate"} |->
     IF f = key THEN value ELSE IF f = "duplicate" THEN TRUE ELSE r[f]]

\* { ...r, [key]: value }
With(r, key, value) == [f \in DOMAIN r \cup {key} |-> IF f = key THEN value ELSE r[f]]

\* a || b on strings: b when a is null or empty
OrElse(a, b) == IF a # Null /\ Len(a) > 0 THEN a ELSE b

\* clawsidian save <url>
saveArticle(u, dry) ==
  /\ cmd = "idle"
  /\ cmd' = "save"
  /\ pc' = "saveUrl"
  /\ values' = [dry_run |-> dry, tags |-> tagsArg]
  /\ loc' = [NoLocals EXCEPT !.url = u]
  /\ out' = NoOutput
  /\ hist' = NewAttempt(hist, files)
  /\ UNCHANGED <<files, now, rawUrl, urlOut, call, tagsArg>>

\* an entry check that leaves the validation out
EntryCheckNoValidate(url) ==
  IF normalizeUrl(url) = Null THEN "unparseable" ELSE "ok"

\* steps 1 and 2 of saveUrl: "invalid", "unparseable" or "ok"
EntryCheck(url) ==
  IF ~isValidUrl(url) THEN "invalid"
  ELSE IF normalizeUrl(url) = Null THEN "unparseable"
  ELSE "ok"

\* saveUrl(url) up to its first await: validate, normalize, call findDuplicate
saveUrlStart ==
  /\ pc = "saveUrl"
  /\ LET url == loc.url
         check == EntryCheck(url)
     IN  IF check = "invalid"
         THEN /\ loc' = [loc EXCEPT !.result =
                          [success |-> FALSE, error |-> <<"I","n","v","a","l","i","d"," ","U","R","L"," ","f","o","r","m","a","t">>, url |-> url]]
              /\ hist' = [hist EXCEPT !.trace = <<"validate">>]
              /\ pc' = "return"
         ELSE IF check = "unparseable"
         THEN /\ loc' = [loc EXCEPT !.result =
                          [success |-> FALSE, error |-> <<"C","o","u","l","d"," ","n","o","t"," ","n","o","r","m","a","l","i","z","e"," ","U","R","L">>, url |-> url]]
              /\ hist' = [hist EXCEPT !.trace = <<"validate", "normalize">>]
              /\ pc' = "return"
         ELSE /\ loc' = [loc EXCEPT !.normalizedUrl = normalizeUrl(url),
                                    !.domain = extractDomain(normalizeUrl(url))]
              /\ hist' = [hist EXCEPT !.trace = <<"validate", "normalize">>]
              /\ pc' = "findDuplicate"
  /\ UNCHANGED <<files, now, cmd, values, out, rawUrl, urlOut, call, tagsArg>>

\* titleMatch[1].trim().replace(/^["']|["']$/g, '')
HeaderTitle(fm) ==
  LET t == HeaderField(fm, "title")
  IN  IF t = Null THEN Null
      ELSE LET a == trim(t)
               b == IF Len(a) > 0 /\ a[1] \in {"\"", "'"} THEN Tail(a) ELSE a
           IN  IF Len(b) > 0 /\ b[Len(b)] \in {"\"", "'"} THEN SubSeq(b, 1, Len(b) - 1) ELSE b

\* a duplicate check whose result is not acted on
findDuplicateIgnored ==
  /\ pc = "findDuplicate"
  /\ loc' = loc
  /\ pc' = "fetchArticle"
  /\ hist' = [hist EXCEPT !.trace = Append(@, "duplicate")]
  /\ UNCHANGED <<files, now, cmd, values, out, rawUrl, urlOut, call, tagsArg>>

\* step 3: the scan of the Articles directory; the first match in readdir order wins
findDuplicate ==
  /\ pc = "findDuplicate"
  /\ LET dups == DuplicatesOf(loc.normalizedUrl, files)
     IN  IF dups # {}
         THEN \E file \in dups :
                /\ loc' = [loc EXCEPT !.result =
                            [success |-> FALSE, duplicate |-> TRUE,
                             existing_file |-> <<"A","r","t","i","c","l","e","s","/">> \o file,
                             existing_title |-> HeaderTitle(files[file].fm),
                             url |-> loc.normalizedUrl]]
                /\ pc' = "return"
         ELSE /\ loc' = loc
              /\ pc' = "fetchArticle"
  /\ hist' = [hist EXCEPT !.trace = Append(@, "duplicate")]
  /\ UNCHANGED <<files, now, cmd, values, out, rawUrl, urlOut, call, tagsArg>>

\* an override that is read as no tags at all
SplitTagsNone(tagsOption) == <<>>

\* values.tags.split(',').map(t => t.trim().toLowerCase())
SplitTags(tagsOption) ==
  [i \in 1..Len(split(tagsOption, ",")) |-> toLowerCase(trim(split(tagsOption, ",")[i]))]

\* steps 5 to 9 of saveUrl and savePartial: the document and the result of a save
Prepared(url, normalizedUrl, domain, r, tagsOption, t, fs) ==
  LET partial == ~r.success
      title == IF partial
               THEN OrElse(r.meta.ogTitle, OrElse(r.meta.titleTag, OrElse(r.meta.h1, domain)))
               ELSE OrElse(r.title, domain)
      keywords == IF partial THEN <<>> ELSE extractKeywords(url)
      tags == IF tagsOption # Null /\ Len(tagsOption) > 0 THEN SplitTags(tagsOption)
              ELSE IF partial THEN <<<<"u","n","t","a","g","g","e","d">>>> ELSE keywords
      filename == generateFilename(title, domain, t, fs)
      status == IF partial THEN "partial" ELSE "complete"
      frontmatter == buildFrontmatter(
        [url |-> normalizedUrl, now |-> t, title |-> title, source |-> domain,
         author |-> Null, published |-> Null, tags |-> tags, status |-> status,
         warning |-> IF partial THEN PARTIAL_WARNING ELSE Null])
  IN  [filename |-> filename,
       fileContent |-> [kind |-> "md", fm |-> frontmatter, heading |-> title, partial |-> partial],
       result |-> IF partial
                  THEN [success |-> TRUE, file |-> <<"A","r","t","i","c","l","e","s","/">> \o filename, title |-> title,
                        source |-> domain, tags |-> tags, status |-> status,
                        url |-> normalizedUrl]
                  ELSE [success |-> TRUE, file |-> <<"A","r","t","i","c","l","e","s","/">> \o filename, title |-> title,
                        source |-> domain, keywords |-> keywords, tags |-> tags,
                        status |-> status, url |-> normalizedUrl]]

\* step 4 and what follows it up to the write: fetch, classify, name, build
fetchArticle(r) ==
  /\ pc = "fetchArticle"
  /\ r.throws = "" /\ (r.success \/ (r.partial /\ r.hasMeta)) /\ ~values.dry_run
       => Cardinality(Docs(files)) < MaxDocs
  /\ IF r.throws # ""
     THEN /\ loc' = [loc EXCEPT !.result =
                      [success |-> FALSE,
                       error |-> IF r.throws \in {"TimeoutError", "AbortError"}
                                 THEN <<"R","e","q","u","e","s","t"," ","t","i","m","e","d"," ","o","u","t">>
                                 ELSE <<"N","e","t","w","o","r","k"," ","e","r","r","o","r",":"," ">> \o <<r.throws>>,
                       url |-> loc.normalizedUrl]]
          /\ hist' = [hist EXCEPT !.trace = Append(@, "fetch")]
          /\ pc' = "return"
     ELSE IF ~r.success /\ ~(r.partial /\ r.hasMeta)
     THEN /\ loc' = [loc EXCEPT !.fetchResult = r, !.result =
                      [success |-> FALSE, error |-> r.error, url |-> loc.normalizedUrl]]
          /\ hist' = [hist EXCEPT !.trace = Append(@, "fetch")]
          /\ pc' = "return"
     ELSE LET p == Prepared(loc.url, loc.normalizedUrl, loc.domain, r, values.tags, now, files)
          IN  /\ hist' = [hist EXCEPT !.trace = @ \o <<"fetch", "classify", "filename">>]
              /\ IF values.dry_run
                 THEN /\ loc' = [loc EXCEPT !.fetchResult = r,
                                            !.result = With(p.result, "dry_run", TRUE)]
                      /\ pc' = "return"
                 ELSE /\ loc' = [loc EXCEPT !.fetchResult = r,
                                            !.filename = p.filename,
                                            !.fileContent = p.fileContent,
                                            !.result = p.result]
                      /\ pc' = "writeFile"
  /\ UNCHANGED <<files, now, cmd, values, out, rawUrl, urlOut, call, tagsArg>>

\* await writeFile(filepath, fileContent): the document is stored, saveUrl returns
writeFile ==
  /\ pc = "writeFile"
  /\ files' = WriteTo(files, loc.filename, loc.fileContent)
  /\ hist' = [hist EXCEPT
       !.trace = Append(@, "persist"),
       !.saved = IF \E s \in @ : s[1] = loc.normalizedUrl THEN @
                 ELSE @ \cup {<<loc.normalizedUrl, loc.filename>>}]
  /\ pc' = "return"
  /\ UNCHANGED <<now, cmd, values, loc, out, rawUrl, urlOut, call, tagsArg>>

\* a write failure that saveUrl catches and returns as the Failure of its item
writeFileThrowsCaught ==
  /\ pc = "writeFile"
  /\ loc' = [loc EXCEPT !.result =
               [success |-> FALSE, error |-> <<"E","A","C","C","E","S",":"," ","p","e","r","m","i","s","s","i","o","n"," ","d","e","n","i","e","d">>, url |-> loc.normalizedUrl]]
  /\ pc' = "return"
  /\ UNCHANGED <<files, now, cmd, values, out, hist, rawUrl, urlOut, call, tagsArg>>

\* await writeFile(filepath, fileContent) rejects: nothing in saveUrl, saveArticle
\* or processQueue catches it, so the catch of the main block prints the error
\* and the process exits with code 1
writeFileThrows ==
  /\ pc = "writeFile"
  /\ out' = [kind |-> "error", exit |-> 1, success |-> FALSE,
             error |-> <<"U","n","e","x","p","e","c","t","e","d"," ","e","r","r","o","r",":"," ","E","A","C","C","E","S",":"," ","p","e","r","m","i","s","s","i","o","n"," ","d","e","n","i","e","d">>]
  /\ pc' = "exit"
  /\ hist' = [hist EXCEPT !.aborted =
                IF cmd = "process"
                THEN @ \cup {loc.results[i].url : i \in {j \in 1..Len(loc.results) : loc.results[j].success}}
                ELSE @]
  /\ UNCHANGED <<files, now, cmd, values, loc, rawUrl, urlOut, call, tagsArg>>

\* saveArticle after saveUrl returned: output(result), process.exit(...)
saveArticleExit ==
  /\ cmd = "save" /\ pc = "return"
  /\ out' = [kind |-> "save", result |-> loc.result,
             exit |-> IF loc.result.success THEN 0 ELSE 1]
  /\ pc' = "exit"
  /\ UNCHANGED <<files, now, cmd, values, loc, hist, rawUrl, urlOut, call, tagsArg>>

(***************************************************************************)
(* lib/queue.js: atomicWrite, addToQueue, writeQueue, clearQueue           *)
(***************************************************************************)
\* atomicWrite(filepath, data) up to the await of writeFile: the temporary file
\* is open and holds a prefix of the data
atomicWriteOpen ==
  /\ pc = "atomicWrite"
  /\ \E uuid \in Uuids :
       LET tmpPath == tmpPathOf(queuePath, uuid)
       IN  /\ files' = WriteTo(files, tmpPath, JsonFile(loc.data, FALSE))
           /\ loc' = [loc EXCEPT !.tmpPath = tmpPath]
           /\ hist' = [hist EXCEPT !.aw = [phase |-> "writing", before |-> readQueue(files),
                                           data |-> loc.data, tmpPath |-> tmpPath]]
  /\ pc' = "tmpWriting"
  /\ UNCHANGED <<now, cmd, values, out, rawUrl, urlOut, call, tagsArg>>

\* writeFile(tmpPath, data) resolves: the temporary file is complete
atomicWriteFlush ==
  /\ pc = "tmpWriting"
  /\ files' = WriteTo(files, loc.tmpPath, JsonFile(loc.data, TRUE))
  /\ hist' = [hist EXCEPT !.aw.phase = "written"]
  /\ pc' = "rename"
  /\ UNCHANGED <<now, cmd, values, loc, out, rawUrl, urlOut, call, tagsArg>>

\* a batch result that counts every result without success as failed
BatchOutputFailedAll(results, failedItems) ==
  [kind |-> "process", exit |-> 0, success |-> TRUE,
   processed |-> Len(results),
   succeeded |-> Len(SelectSeq(results, LAMBDA r : r.success)),
   failed |-> Len(SelectSeq(results, LAMBDA r : ~r.success)),
   duplicates |-> Len(SelectSeq(results, LAMBDA r : "duplicate" \in DOMAIN r /\ r.duplicate)),
   results |-> results,
   queue |-> loc.queue]

\* the batch result printed by processQueue
BatchOutput(results, failedItems) ==
  [kind |-> "process", exit |-> 0, success |-> TRUE,
   processed |-> Len(results),
   succeeded |-> Len(SelectSeq(results, LAMBDA r : r.success)),
   failed |-> Len(failedItems),
   duplicates |-> Len(SelectSeq(results, LAMBDA r : "duplicate" \in DOMAIN r /\ r.duplicate)),
   results |-> results,
   queue |-> loc.queue]

\* rename(tmpPath, filepath), then the caller prints its result and exits
atomicWriteRename ==
  /\ pc = "rename"
  /\ files' = WriteTo(Remove(files, loc.tmpPath), queuePath, files[loc.tmpPath])
  /\ hist' = [hist EXCEPT !.aw.phase = "renamed"]
  /\ out' = IF cmd = "queue"
            THEN [kind |-> "queue", exit |-> 0, success |-> TRUE, queued |-> TRUE,
                  url |-> loc.url]
            ELSE BatchOutput(loc.results, loc.failedItems)
  /\ pc' = "exit"
  /\ UNCHANGED <<now, cmd, values, loc, rawUrl, urlOut, call, tagsArg>>

\* clawsidian save --queue <url>: rejected at once when the URL is not valid
queueUrl(u) ==
  /\ cmd = "idle"
  /\ cmd' = "queue"
  /\ loc' = [NoLocals EXCEPT !.url = u]
  /\ IF ~isValidUrl(u)
     THEN /\ out' = [kind |-> "queue", exit |-> 1, success |-> FALSE,
                     error |-> <<"I","n","v","a","l","i","d"," ","U","R","L"," ","f","o","r","m","a","t">>]
          /\ pc' = "exit"
     ELSE /\ out' = NoOutput
          /\ pc' = "addToQueue"
  /\ UNCHANGED <<files, now, values, hist, rawUrl, urlOut, call, tagsArg>>

\* an add that pushes without looking for the url in the queue
addToQueueUnchecked ==
  /\ pc = "addToQueue"
  /\ loc' = [loc EXCEPT !.data = Append(readQueue(files), [url |-> loc.url, added |-> isoNow(now)])]
  /\ pc' = "atomicWrite"
  /\ UNCHANGED <<files, now, cmd, values, out, hist, rawUrl, urlOut, call, tagsArg>>

\* an add that stores its item alone, whatever the stored queue holds
addToQueueOverwrites ==
  /\ pc = "addToQueue"
  /\ loc' = [loc EXCEPT !.data = <<[url |-> loc.url, added |-> isoNow(now)]>>]
  /\ pc' = "atomicWrite"
  /\ UNCHANGED <<files, now, cmd, values, out, hist, rawUrl, urlOut, call, tagsArg>>

\* addToQueue after readQueue resolved: reject a stored url, else push and persist
addToQueue ==
  /\ pc = "addToQueue"
  /\ LET queue == readQueue(files)
     IN  IF \E i \in 1..Len(queue) : queue[i].url = loc.url
         THEN /\ out' = [kind |-> "queue", exit |-> 1, success |-> FALSE,
                         error |-> <<"A","l","r","e","a","d","y"," ","i","n"," ","q","u","e","u","e">>, url |-> loc.url]
              /\ pc' = "exit"
              /\ loc' = loc
         ELSE /\ loc' = [loc EXCEPT !.data = Append(queue, [url |-> loc.url, added |-> isoNow(now)])]
              /\ pc' = "atomicWrite"
              /\ out' = out
  /\ UNCHANGED <<files, now, cmd, values, hist, rawUrl, urlOut, call, tagsArg>>

(***************************************************************************)
(* clawsidian.js: processQueue                                             *)
(***************************************************************************)
\* clawsidian save --process-queue
processQueue(dry) ==
  /\ cmd = "idle"
  /\ cmd' = "process"
  /\ pc' = "readQueue"
  /\ values' = [dry_run |-> dry, tags |-> tagsArg]
  /\ loc' = NoLocals
  /\ out' = NoOutput
  /\ UNCHANGED <<files, now, hist, rawUrl, urlOut, call, tagsArg>>

\* readQueue resolved: an empty queue ends the command, else the loop starts
processQueueRead ==
  /\ cmd = "process" /\ pc = "readQueue"
  /\ LET queue == readQueue(files)
     IN  IF Len(queue) = 0
         THEN /\ out' = [kind |-> "process", exit |-> 0, success |-> TRUE, processed |-> 0,
                         results |-> <<>>, queue |-> <<>>]
              /\ pc' = "exit"
              /\ UNCHANGED <<loc, hist>>
         ELSE /\ loc' = [loc EXCEPT !.queue = queue, !.idx = 1, !.url = queue[1].url]
              /\ hist' = NewAttempt(hist, files)
              /\ pc' = "saveUrl"
              /\ out' = out
  /\ UNCHANGED <<files, now, cmd, values, rawUrl, urlOut, call, tagsArg>>

\* a retry list that keeps every item whose result is not a success
FailedItemsKeepDuplicates(failedItems, item, result) ==
  IF ~result.success THEN Append(failedItems, item) ELSE failedItems

\* a retry list that takes a failed item in twice
FailedItemsTwice(failedItems, item, result) ==
  IF ~result.success /\ ~("duplicate" \in DOMAIN result /\ result.duplicate)
  THEN failedItems \o <<item, item>>
  ELSE failedItems

\* the items kept for a retry: if (!result.success && !result.duplicate) push
FailedItems(failedItems, item, result) ==
  IF ~result.success /\ ~("duplicate" \in DOMAIN result /\ result.duplicate)
  THEN Append(failedItems, item)
  ELSE failedItems

\* a loop that is left after the first item that did not succeed
processQueueNextStopsOnFailure ==
  /\ cmd = "process" /\ pc = "return"
  /\ LET results == Append(loc.results, loc.result)
         failedItems == FailedItems(loc.failedItems, loc.queue[loc.idx], loc.result)
     IN  IF loc.idx < Len(loc.queue) /\ loc.result.success
         THEN /\ loc' = [NoLocals EXCEPT !.queue = loc.queue, !.idx = loc.idx + 1,
                                         !.url = loc.queue[loc.idx + 1].url,
                                         !.results = results, !.failedItems = failedItems]
              /\ hist' = NewAttempt(hist, files)
              /\ pc' = "saveUrl"
         ELSE /\ loc' = [NoLocals EXCEPT !.queue = loc.queue, !.results = results,
                                         !.failedItems = failedItems, !.data = failedItems]
              /\ hist' = hist
              /\ pc' = IF Len(failedItems) = 0 THEN "clearQueue" ELSE "atomicWrite"
  /\ UNCHANGED <<files, now, cmd, values, out, rawUrl, urlOut, call, tagsArg>>

\* a loop that tries an item a second time when its first attempt failed
processQueueNextRetries ==
  /\ cmd = "process" /\ pc = "return"
  /\ LET results == Append(loc.results, loc.result)
         failedItems == FailedItems(loc.failedItems, loc.queue[loc.idx], loc.result)
     IN  IF ~loc.result.success /\ "duplicate" \notin DOMAIN loc.result
            /\ Len(loc.results) < loc.idx
         THEN /\ loc' = [NoLocals EXCEPT !.queue = loc.queue, !.idx = loc.idx,
                                         !.url = loc.queue[loc.idx].url,
                                         !.results = results, !.failedItems = loc.failedItems]
              /\ hist' = NewAttempt(hist, files)
              /\ pc' = "saveUrl"
         ELSE IF loc.idx < Len(loc.queue)
         THEN /\ loc' = [NoLocals EXCEPT !.queue = loc.queue, !.idx = loc.idx + 1,
                                         !.url = loc.queue[loc.idx + 1].url,
                                         !.results = results, !.failedItems = failedItems]
              /\ hist' = NewAttempt(hist, files)
              /\ pc' = "saveUrl"
         ELSE /\ loc' = [NoLocals EXCEPT !.queue = loc.queue, !.results = results,
                                         !.failedItems = failedItems, !.data = failedItems]
              /\ hist' = hist
              /\ pc' = IF Len(failedItems) = 0 THEN "clearQueue" ELSE "atomicWrite"
  /\ UNCHANGED <<files, now, cmd, values, out, rawUrl, urlOut, call, tagsArg>>

\* saveUrl returned inside the loop: record the result, go on to the next item,
\* or leave the loop and call writeQueue(failedItems)
processQueueNext ==
  /\ cmd = "process" /\ pc = "return"
  /\ LET results == Append(loc.results, loc.result)
         failedItems == FailedItems(loc.failedItems, loc.queue[loc.idx], loc.result)
     IN  IF loc.idx < Len(loc.queue)
         THEN /\ loc' = [NoLocals EXCEPT !.queue = loc.queue, !.idx = loc.idx + 1,
                                         !.url = loc.queue[loc.idx + 1].url,
                                         !.results = results, !.failedItems = failedItems]
              /\ hist' = NewAttempt(hist, files)
              /\ pc' = "saveUrl"
         ELSE /\ loc' = [NoLocals EXCEPT !.queue = loc.queue, !.results = results,
                                         !.failedItems = failedItems, !.data = failedItems]
              /\ hist' = hist
              /\ pc' = IF Len(failedItems) = 0 THEN "clearQueue" ELSE "atomicWrite"
  /\ UNCHANGED <<files, now, cmd, values, out, rawUrl, urlOut, call, tagsArg>>

\* a clear that stores an empty list in the queue file
clearQueueWritesEmpty ==
  /\ pc = "clearQueue"
  /\ files' = WriteTo(files, queuePath, JsonFile(<<>>, TRUE))
  /\ out' = BatchOutput(loc.results, loc.failedItems)
  /\ pc' = "exit"
  /\ UNCHANGED <<now, cmd, values, loc, hist, rawUrl, urlOut, call, tagsArg>>

\* clearQueue: unlink(path), a missing file is fine; processQueue prints and exits
clearQueue ==
  /\ pc = "clearQueue"
  /\ files' = Remove(files, queuePath)
  /\ out' = BatchOutput(loc.results, loc.failedItems)
  /\ pc' = "exit"
  /\ UNCHANGED <<now, cmd, values, loc, hist, rawUrl, urlOut, call, tagsArg>>

(***************************************************************************)
(* The environment: the death of the process.                              *)
(***************************************************************************)
\* the process is killed at an await: its memory is lost, its files stay as
\* they are (the run is followed up to its first crash)
Crash ==
  /\ cmd # "idle" /\ pc \notin {"exit", "crashed"}
  /\ pc' = "crashed"
  /\ values' = [dry_run |-> FALSE, tags |-> Null]
  /\ loc' = NoLocals
  /\ out' = NoOutput
  /\ hist' = [NoHistory EXCEPT !.saved = hist.saved, !.aw = hist.aw, !.aborted = hist.aborted]
  /\ UNCHANGED <<files, now, cmd, rawUrl, urlOut, call, tagsArg>>

\* the process is gone: nothing of it is left but the files
processExit ==
  /\ pc = "exit"
  /\ cmd' = "idle"
  /\ pc' = "idle"
  /\ values' = [dry_run |-> FALSE, tags |-> Null]
  /\ loc' = NoLocals
  /\ out' = NoOutput
  /\ hist' = [NoHistory EXCEPT !.saved = hist.saved, !.aborted = hist.aborted]
  /\ UNCHANGED <<files, now, rawUrl, urlOut, call, tagsArg>>

Next ==
  \/ \E u \in Urls, dry \in BOOLEAN : saveArticle(u, dry)
  \/ saveUrlStart
  \/ findDuplicate
  \/ \E r \in FetchOutcomes : fetchArticle(r)
  \/ writeFile
  \/ writeFileThrows
  \/ saveArticleExit
  \/ \E u \in Urls : queueUrl(u)
  \/ addToQueue
  \/ atomicWriteOpen
  \/ atomicWriteFlush
  \/ atomicWriteRename
  \/ \E dry \in BOOLEAN : processQueue(dry)
  \/ processQueueRead
  \/ processQueueNext
  \/ clearQueue
  \/ Crash
  \/ processExit

Spec == Init /\ [][Next]_vars

(***************************************************************************)
(* The URL functions on their own: a raw URL is drawn from UrlInputs and   *)
(* normalizeUrl, normalizeUrl again on its result, and isValidUrl are      *)
(* applied to it.                                                          *)
(***************************************************************************)
SchemeInputs == {<<"h","t","t","p",":","/","/">>, <<"h","t","t","p","s",":","/","/">>, <<"H","T","T","P",":","/","/">>, <<"f","t","p",":","/","/">>}

HostInputs ==
  {<<"e","x","a","m","p","l","e",".","c","o","m">>, <<"w","w","w",".","e","x","a","m","p","l","e",".","c","o","m">>, <<"W","W","W",".","E","x","a","m","p","l","e",".","C","O","M">>, <<"w","w","w",".","w","w","w",".","e","x","a","m","p","l","e",".","c","o","m">>,
   <<"e","x","a","m","p","l","e",".","c","o","m",":","8","0","8","0">>, <<"e","x","a","m","p","l","e",".","c","o","m",":","4","4","3">>, <<"f","c","b","a","r","c","e","l","o","n","a",".","c","o","m">>, <<"8",".","8",".","8",".","8">>,
   <<"l","o","c","a","l","h","o","s","t">>, <<"L","O","C","A","L","H","O","S","T">>, <<"0",".","0",".","0",".","0">>, <<"1","2","7",".","0",".","0",".","1">>, <<"1","2","7",".","1">>, <<"1","0",".","0",".","0",".","5">>,
   <<"1","7","2",".","1","6",".","0",".","1">>, <<"1","7","2",".","3","1",".","2","5","5",".","1">>, <<"1","7","2",".","3","2",".","0",".","1">>, <<"1","9","2",".","1","6","8",".","1",".","1">>, <<"1","6","9",".","2","5","4",".","1","6","9",".","2","5","4">>,
   <<"2","1","3","0","7","0","6","4","3","3">>, <<"0","x","7","f","0","0","0","0","0","1">>, <<"0","1","7","7","0","0","0","0","0","0","0","1">>, <<"0","x","7","f",".","1">>,
   <<"f","o","o",".","i","n","t","e","r","n","a","l">>, <<"p","r","i","n","t","e","r",".","l","o","c","a","l">>, <<"a","p","p",".","l","o","c","a","l","h","o","s","t">>, <<"1",".","0",".","0",".","1","2","7",".","i","n","-","a","d","d","r",".","a","r","p","a">>,
   <<"[",":",":","1","]">>, <<"[","0",":","0",":","0",":","0",":","0",":","0",":","0",":","1","]">>, <<"[",":",":","0","]">>, <<"[","f","e","8","0",":",":","1","]">>, <<"[","F","E","8","0",":",":","1","]">>, <<"[","f","e","b","f",":",":","1","]">>,
   <<"[","f","c","0","0",":",":","1","]">>, <<"[","f","d","1","2",":","3","4","5","6",":",":","1","]">>, <<"[","2","0","0","1",":","d","b","8",":",":","1","]">>,
   <<"1",".","2",".","3",".","4",".","5">>, <<"e","x","a"," ","m","p","l","e",".","c","o","m">>, <<>>}

PathInputs == {<<>>, <<"/">>, <<"/","a">>, <<"/","a","/">>, <<"/","a","/","/">>, <<"/","p","a","t","h">>}

QueryInputs ==
  {<<>>, <<"?">>, <<"?","i","d","=","9">>, <<"?","u","t","m","_","s","o","u","r","c","e","=","x","&","r","e","f","=","y","&","i","d","=","9">>, <<"?","r","e","f","=","y">>, <<"?","u","t","m","_","x","=","1","&","f","b","c","l","i","d","=","2">>,
   <<"?","b","=","2","&","u","t","m","_","m","e","d","i","u","m","=","m","&","a","=","1","&","b","=","3">>, <<"?","i","d","=","9","/">>, <<"?","g","c","l","i","d","=","1","&","i","d","=","9","/">>, <<"?","R","e","f","=","y","&","i","d","=","9">>}

FragmentInputs == {<<>>, <<"#","f","r","a","g">>}

UrlInputs ==
  {s \o h \o <<"/">> : s \in SchemeInputs, h \in HostInputs}
  \cup {<<"h","t","t","p","s",":","/","/">> \o h \o p \o q \o f :
          h \in {<<"e","x","a","m","p","l","e",".","c","o","m">>, <<"W","W","W",".","E","x","a","m","p","l","e",".","C","O","M">>, <<"w","w","w",".","w","w","w",".","e","x","a","m","p","l","e",".","c","o","m">>},
          p \in PathInputs, q \in QueryInputs, f \in FragmentInputs}
  \cup {<<"n","o","t"," ","a"," ","u","r","l">>, <<"e","x","a","m","p","l","e",".","c","o","m","/","a">>, <<":","/","/","e","x","a","m","p","l","e",".","c","o","m","/">>, <<"h","t","t","p","s",":","/","/","e","x","a","m","p","l","e",".","c","o","m","/","p","a","t","h">>}

InitUrl ==
  /\ rawUrl \in UrlInputs
  /\ urlOut = [phase |-> "new"]
  /\ files = <<>>
  /\ now = 0
  /\ cmd = "idle"
  /\ pc = "idle"
  /\ values = [dry_run |-> FALSE, tags |-> Null]
  /\ loc = NoLocals
  /\ out = NoOutput
  /\ hist = NoHistory
  /\ call = NoCall
  /\ tagsArg = Null

applyNormalize ==
  /\ urlOut.phase = "new"
  /\ urlOut' = [phase |-> "normalized", normalized |-> normalizeUrl(rawUrl)]
  /\ UNCHANGED <<files, now, cmd, pc, values, loc, out, hist, rawUrl, call, tagsArg>>

applyNormalizeAgain ==
  /\ urlOut.phase = "normalized"
  /\ urlOut.normalized # Null
  /\ urlOut' = [phase |-> "renormalized", normalized |-> urlOut.normalized,
                again |-> normalizeUrl(urlOut.normalized)]
  /\ UNCHANGED <<files, now, cmd, pc, values, loc, out, hist, rawUrl, call, tagsArg>>

applyValidate ==
  /\ urlOut.phase = "new"
  /\ urlOut' = [phase |-> "validated", valid |-> isValidUrl(rawUrl),
                normalized |-> normalizeUrl(rawUrl)]
  /\ UNCHANGED <<files, now, cmd, pc, values, loc, out, hist, rawUrl, call, tagsArg>>

NextUrl == applyNormalize \/ applyNormalizeAgain \/ applyValidate

SpecUrl == InitUrl /\ [][NextUrl]_vars

(***************************************************************************)
(* Properties of the URL functions, stated over SpecUrl.                   *)
(***************************************************************************)
\* what a stored host denotes, read off its canonical form
HostOctets(host) == IF EndsInNumber(host) THEN ParseIPv4(host) ELSE <<>>

HostPieces(host) ==
  IF Len(host) > 1 /\ host[1] = "[" THEN ParseIPv6(SubSeq(host, 2, Len(host) - 1)) ELSE <<>>

\* RFC 1918 private, loopback, link-local and "this network" IPv4 addresses
IsInternalIPv4(o) ==
  /\ Len(o) = 4
  /\ \/ o[1] \in {0, 10, 127}
     \/ o[1] = 172 /\ o[2] \in 16..31
     \/ o[1] = 192 /\ o[2] = 168
     \/ o[1] = 169 /\ o[2] = 254

\* ::1 loopback, fe80::/10 link-local, fc00::/7 unique-local IPv6 addresses
IsInternalIPv6(p) ==
  /\ Len(p) = 8
  /\ \/ p = <<0, 0, 0, 0, 0, 0, 0, 1>>
     \/ p[1] \in 65152..65215
     \/ p[1] \in 64512..65023

\* the categories of URLs that validation has to reject
IsUnsafeParsed(url) ==
  \/ ~url.ok
  \/ url.scheme \notin {<<"h","t","t","p">>, <<"h","t","t","p","s">>}
  \/ \E b \in BLOCKED_HOSTNAMES : ParseHost(b) = url.host
  \/ \E suffix \in BLOCKED_SUFFIXES : endsWith(url.host, suffix)
  \/ IsInternalIPv4(HostOctets(url.host))
  \/ IsInternalIPv6(HostPieces(url.host))

IsUnsafeUrl(raw) == IsUnsafeParsed(ParseURL(raw))

\* C6: validate returns false for every URL that is malformed, is not http(s),
\* or whose host is blocked, has a reserved suffix, or is a private, loopback,
\* link-local or unique-local address in any numeric encoding; the four
\* examples of the spec are rejected and https://example.com/path is accepted.
C6_RejectsUnsafe ==
  urlOut.phase = "validated" =>
    /\ IsUnsafeUrl(rawUrl) => ~urlOut.valid
    /\ rawUrl \in {<<"h","t","t","p",":","/","/","1","2","7",".","0",".","0",".","1","/">>, <<"h","t","t","p",":","/","/","1","6","9",".","2","5","4",".","1","6","9",".","2","5","4","/">>, <<"h","t","t","p",":","/","/","1","0",".","0",".","0",".","5","/">>,
                   <<"h","t","t","p",":","/","/","f","o","o",".","i","n","t","e","r","n","a","l","/">>} => ~urlOut.valid
    /\ rawUrl = <<"h","t","t","p","s",":","/","/","e","x","a","m","p","l","e",".","c","o","m","/","p","a","t","h">> => urlOut.valid

\* C7: normalization is idempotent: normalize(normalize(u)) = normalize(u).
C7_Idempotent ==
  urlOut.phase = "renormalized" => urlOut.again = urlOut.normalized

\* the normal form of a URL text n that parses as u
IsNormalForm(n, u) ==
  /\ startsWith(n, <<"h","t","t","p","s",":","/","/">>)
  /\ u.ok
  /\ u.host = toLowerCase(u.host)
  /\ ~startsWith(u.host, <<"w","w","w",".">>)
  /\ indexOf(n, {"#"}) = 0
  /\ endsWith(n, <<"/">>) => u.path = <<"/">>

\* C8: a normalized URL has the https scheme, a lowercase host without a leading
\* "www.", no fragment, and no trailing slash unless its path is the root.
C8_NormalForm ==
  urlOut.phase = "normalized" /\ urlOut.normalized # Null =>
    IsNormalForm(urlOut.normalized, ParseURL(urlOut.normalized))

\* C9: normalize removes every parameter named in the tracking set or starting
\* with utm_, and keeps every other parameter, value and order unchanged.
C9_TrackingStripped ==
  urlOut.phase = "normalized" /\ urlOut.normalized # Null =>
    searchParams(ParseURL(urlOut.normalized)) =
      SelectSeq(searchParams(ParseURL(rawUrl)), LAMBDA p : ~IsTrackingKey(p[1]))

(***************************************************************************)
(* Properties of the queue and of the save orchestrator, stated over Spec. *)
(***************************************************************************)
\* C1: a persist of the queue writes the whole new content to a temporary file
\* beside the queue file and renames it over the queue path; until the rename,
\* also after a crash, readQueue returns the complete queue from before the
\* operation, and from the rename on the complete new queue.
C1_AtomicPersist ==
  hist.aw.phase # "none" =>
    /\ hist.aw.tmpPath # queuePath /\ startsWith(hist.aw.tmpPath, queuePath)
    /\ hist.aw.phase \in {"writing", "written"} =>
         /\ readQueue(files) = hist.aw.before
         /\ hist.aw.tmpPath \in DOMAIN files
    /\ hist.aw.phase = "written" => files[hist.aw.tmpPath] = JsonFile(hist.aw.data, TRUE)
    /\ hist.aw.phase = "renamed" =>
         /\ readQueue(files) = hist.aw.data
         /\ hist.aw.tmpPath \notin DOMAIN files

\* a crash after the temporary file was written in full and before the rename,
\* with an older non-empty queue on disk
C1_Witness ==
  /\ pc = "crashed"
  /\ hist.aw.phase = "written"
  /\ Len(hist.aw.before) > 0
  /\ hist.aw.before # hist.aw.data
  /\ readQueue(files) = hist.aw.before

\* the variant of a save result
Variant(r) ==
  IF r.success THEN "Success"
  ELSE IF "existing_file" \in DOMAIN r THEN "Duplicate"
  ELSE "Failure"

RECURSIVE FailedOnly(_, _)
FailedOnly(queue, results) ==
  IF Len(queue) = 0 THEN <<>>
  ELSE (IF Variant(results[1]) = "Failure" THEN <<queue[1]>> ELSE <<>>)
       \o FailedOnly(Tail(queue), Tail(results))

\* C2: when processQueue has completed, the stored queue is exactly the items
\* it read whose save ended in Failure, in their stored order.
C2_FailedRetained ==
  cmd = "process" /\ pc = "exit" /\ out.kind = "process" =>
    /\ Len(out.results) = Len(out.queue)
    /\ readQueue(files) = FailedOnly(out.queue, out.results)

\* a batch of one failing and one succeeding URL has left exactly the failing one
C2_Witness ==
  /\ cmd = "process" /\ pc = "exit" /\ out.kind = "process"
  /\ Len(out.queue) = 2
  /\ \E i, j \in 1..2 :
       /\ Variant(out.results[i]) = "Failure"
       /\ Variant(out.results[j]) = "Success"
       /\ readQueue(files) = <<out.queue[i]>>

\* C3: once a save that was not a dry run has returned Success for a URL, a
\* later save of any URL with the same normalized form returns Duplicate naming
\* the file of the first save, without a fetch and without writing a file.
C3_SecondSaveIsDuplicate ==
  pc = "return" /\ isValidUrl(loc.url) =>
    \A s \in hist.prior :
      s[1] = normalizeUrl(loc.url) =>
        /\ Variant(loc.result) = "Duplicate"
        /\ loc.result.existing_file = <<"A","r","t","i","c","l","e","s","/">> \o s[2]
        /\ hist.trace = <<"validate", "normalize", "duplicate">>
        /\ files = hist.before

\* the url field of a stored document, as it stands in the header
HeaderUrl(fs, f) == HeaderField(fs[f].fm, "url")

\* C4: no two stored documents carry the same url field.
C4_OneDocumentPerUrl ==
  \A f, g \in Docs(files) : f # g => HeaderUrl(files, f) # HeaderUrl(files, g)

\* C5: a fetch is issued only for a URL that validation accepted earlier in the
\* same attempt; an invalid URL ends in Failure after the validation alone,
\* with no duplicate scan, no fetch and no file written.
C5_ValidateBeforeFetch ==
  /\ pc \in {"findDuplicate", "fetchArticle", "writeFile"} =>
       /\ isValidUrl(loc.url)
       /\ hist.trace[1] = "validate"
  /\ pc = "return" =>
       /\ hist.trace[1] = "validate"
       /\ ~isValidUrl(loc.url) =>
            /\ Variant(loc.result) = "Failure"
            /\ hist.trace = <<"validate">>
            /\ files = hist.before

C5_Witness ==
  /\ pc = "return"
  /\ ~isValidUrl(loc.url)
  /\ Variant(loc.result) = "Failure"

SaveSteps ==
  <<"validate", "normalize", "duplicate", "fetch", "classify", "filename", "persist">>

\* C10: the steps of a save run in the order validate, normalize, duplicate
\* check, fetch, classify, generate filename, persist, each only after all the
\* earlier ones; a Failure at validate, normalize or fetch and a Duplicate end
\* the attempt there, so a Duplicate has fetched nothing, probed no filename
\* and written no file.
C10_StepOrder ==
  /\ Len(hist.trace) <= Len(SaveSteps)
  /\ hist.trace = SubSeq(SaveSteps, 1, Len(hist.trace))
  /\ pc = "return" =>
       /\ Variant(loc.result) = "Duplicate" =>
            Len(hist.trace) = 3 /\ files = hist.before
       /\ Variant(loc.result) = "Failure" => Len(hist.trace) \in {1, 2, 4} /\ files = hist.before
       /\ Variant(loc.result) = "Success" =>
            Len(hist.trace) = IF "dry_run" \in DOMAIN loc.result THEN 6 ELSE 7
       /\ Len(hist.trace) >= 3 /\ DuplicatesOf(loc.normalizedUrl, hist.before) # {} =>
            Variant(loc.result) = "Duplicate"

\* a save that found its URL already stored has returned Duplicate
C10_Witness ==
  /\ pc = "return"
  /\ Variant(loc.result) = "Duplicate"
  /\ hist.trace = <<"validate", "normalize", "duplicate">>

(***************************************************************************)
(* Properties of the save results, the queue and the documents, stated     *)
(* over Spec.                                                              *)
(***************************************************************************)
\* the fields that make up each variant of a save result
Populated(r, v) ==
  IF v = "Success" THEN r.success /\ "file" \in DOMAIN r
  ELSE IF v = "Duplicate" THEN "duplicate" \in DOMAIN r /\ r.duplicate /\ "existing_file" \in DOMAIN r
  ELSE "error" \in DOMAIN r

OneVariant(r) ==
  /\ Cardinality({v \in {"Success", "Duplicate", "Failure"} : Populated(r, v)}) = 1
  /\ ~(r.success /\ "duplicate" \in DOMAIN r /\ r.duplicate)
  /\ Populated(r, Variant(r))

\* C11: every save attempt returns exactly one of the variants Success,
\* Duplicate and Failure, on its own and inside a batch; no result is both a
\* success and a duplicate.
C11_ExactlyOneVariant ==
  /\ pc = "return" => OneVariant(loc.result)
  /\ \A i \in 1..Len(loc.results) : OneVariant(loc.results[i])
  /\ out.kind = "save" => OneVariant(out.result)
  /\ out.kind = "process" => \A i \in 1..Len(out.results) : OneVariant(out.results[i])

\* a batch has returned a Success of a dry run and a Duplicate
C11_Witness ==
  /\ out.kind = "process"
  /\ \E i, j \in 1..Len(out.results) :
       /\ Variant(out.results[i]) = "Duplicate"
       /\ Variant(out.results[j]) = "Success"
       /\ "dry_run" \in DOMAIN out.results[j]

\* the queue holds an item with exactly this raw url
InQueue(queue, url) == \E i \in 1..Len(queue) : queue[i].url = url

\* C12: an add of a url that the stored queue already holds, as the same raw
\* string, is rejected with a reason and leaves the vault as it is; any other
\* add appends one item for the url, stamped with the current time, after the
\* stored items, persists that list and reports the url as queued.
C12_AddToQueue ==
  /\ [][pc = "addToQueue" /\ pc' # "crashed" =>
          IF InQueue(readQueue(files), loc.url)
          THEN /\ pc' = "exit"
               /\ ~out'.success /\ out'.error = <<"A","l","r","e","a","d","y"," ","i","n"," ","q","u","e","u","e">> /\ out'.exit = 1
               /\ files' = files
          ELSE /\ pc' = "atomicWrite"
               /\ loc'.data = Append(readQueue(files), [url |-> loc.url, added |-> isoNow(now)])
               /\ files' = files]_vars
  /\ [](cmd = "queue" /\ pc = "exit" /\ out.success =>
          /\ out.queued /\ out.url = loc.url
          /\ ~InQueue(hist.aw.before, out.url)
          /\ readQueue(files) = Append(hist.aw.before, [url |-> out.url, added |-> isoNow(now)]))

\* an add of a url that stands in a queue of two items has been rejected
C12_Witness ==
  /\ cmd = "queue" /\ pc = "exit"
  /\ ~out.success /\ out.error = <<"A","l","r","e","a","d","y"," ","i","n"," ","q","u","e","u","e">>
  /\ Len(readQueue(files)) = 2
  /\ InQueue(readQueue(files), loc.url)

\* C13: whatever adds, batch runs and clears one writer has run on a vault
\* that began without a queue, no two stored queue items have the same raw url.
C13_UniqueQueueUrls ==
  \A i, j \in 1..Len(readQueue(files)) :
    i # j => readQueue(files)[i].url # readQueue(files)[j].url

\* a batch run has written back two failed items
C13_Witness ==
  /\ cmd = "process" /\ pc = "exit" /\ out.kind = "process"
  /\ Len(out.queue) = 2
  /\ Len(readQueue(files)) = 2
  /\ hist.aw.phase = "renamed"

\* C14: writing back an empty list removes the queue file, so that reading the
\* queue gives the empty list of a vault that never had one; the queue file,
\* whenever it exists, holds a complete, non-empty list.
C14_NoEmptyQueueFile ==
  /\ queuePath \in DOMAIN files =>
       /\ files[queuePath].kind = "json" /\ files[queuePath].intact
       /\ Len(files[queuePath].items) > 0
  /\ cmd = "process" /\ pc = "exit" /\ out.kind = "process" /\ Len(out.queue) > 0 /\ out.failed = 0 =>
       /\ queuePath \notin DOMAIN files
       /\ readQueue(files) = readQueue(<<>>)

\* a batch run without a failure has removed the queue file of two items
C14_Witness ==
  /\ cmd = "process" /\ pc = "exit" /\ out.kind = "process"
  /\ Len(out.queue) = 2 /\ out.failed = 0
  /\ queuePath \notin DOMAIN files

\* C16: no step of a save or of a batch run changes or removes a stored
\* document; the write of a save goes to a path that was free when the name
\* was generated and is still free when the file is written.
C16_DocumentsImmutable ==
  /\ [][\A f \in Docs(files) : f \in DOMAIN files' /\ files'[f] = files[f]]_vars
  /\ [](pc = "writeFile" =>
          /\ loc.filename \notin DOMAIN files
          /\ loc.filename \notin DOMAIN hist.before)

\* a save has stored a second document beside an older one, which is unchanged
C16_Witness ==
  /\ pc = "return"
  /\ Len(hist.trace) = 7
  /\ Cardinality(Docs(hist.before)) = 1
  /\ Cardinality(Docs(files)) = 2
  /\ \A f \in Docs(hist.before) : files[f] = hist.before[f]

\* the documents of a vault with their content
DocsOf(fs) == [f \in Docs(fs) |-> fs[f]]

\* the fields of the result of a save that stored a document
SuccessFields(r) ==
  IF r.status = "partial"
  THEN {"success", "file", "title", "source", "tags", "status", "url"}
  ELSE {"success", "file", "title", "source", "keywords", "tags", "status", "url"}

\* C20: a save in dry-run mode runs validate, normalize, duplicate check,
\* fetch, classify and the probing of the file name as a real save does, and
\* stops before the write: no document is written or changed, and a Success
\* has the fields of a real save and the dry-run marker on top, with the file
\* name a real save would have taken.
C20_DryRunWritesNothing ==
  /\ values.dry_run /\ pc \in {"saveUrl", "findDuplicate", "fetchArticle", "writeFile", "return"} =>
       /\ pc # "writeFile"
       /\ DocsOf(files) = DocsOf(hist.before)
       /\ pc = "return" /\ Variant(loc.result) = "Success" =>
            /\ hist.trace = SubSeq(SaveSteps, 1, 6)
            /\ "dry_run" \in DOMAIN loc.result /\ loc.result.dry_run
            /\ DOMAIN loc.result \ {"dry_run"} = SuccessFields(loc.result)
            /\ loc.result.url = normalizeUrl(loc.url)
            /\ loc.result.file =
                 <<"A","r","t","i","c","l","e","s","/">> \o generateFilename(loc.result.title, loc.domain, now, files)
  /\ ~values.dry_run /\ pc = "return" /\ Variant(loc.result) = "Success" =>
       /\ hist.trace = SaveSteps
       /\ DOMAIN loc.result = SuccessFields(loc.result)

\* a dry run beside a stored document of the same title has probed the name
\* with the counter 2 and has written nothing
C20_Witness ==
  /\ values.dry_run /\ pc = "return"
  /\ Variant(loc.result) = "Success" /\ loc.result.dry_run
  /\ Cardinality(Docs(files)) = 1
  /\ \E f \in Docs(files) : loc.result.file = <<"A","r","t","i","c","l","e","s","/">> \o SubSeq(f, 1, Len(f) - 3) \o <<"-","2",".","m","d">>

(***************************************************************************)
(* The functions of lib/queue.js and lib/slugify.js called on their own,   *)
(* on vaults that other programs may have written.                         *)
(***************************************************************************)
\* queue items as they may stand in a queue file
ItemInputs ==
  {[url |-> <<"h","t","t","p","s",":","/","/","e",".","c","o","/","a">>, added |-> isoNow(0)],
   [url |-> <<"h","t","t","p","s",":","/","/","e",".","c","o","/","b">>],
   [added |-> isoNow(0)]}

\* vaults without a queue file and with one, whatever it may hold
QueueVaults ==
  {<<>>}
  \cup {WriteTo(<<>>, queuePath, JsonFile(items, intact)) :
          items \in {<<>>} \cup {<<a>> : a \in ItemInputs} \cup {<<a, b>> : a, b \in ItemInputs},
          intact \in BOOLEAN}
  \cup {WriteTo(<<>>, queuePath, JsonValueFile(type)) :
          type \in {"object", "string", "number", "null"}}
  \cup {WriteTo(<<>>, queuePath, TextFile)}

\* the longest title the sanitizer is run on
MaxTitle == 125

\* titles as pages may carry them
TitleInputs ==
  {Null, <<>>, <<"F","o","o">>, <<"?","?","?">>, <<" ","-","F","o","o">>, <<"F","o","o"," ","-">>, <<"-","F","o","o","-">>, <<"a","/","b",":"," ","c">>, <<"F","o","o"," "," ","b","a","r">>,
   <<"a", "\t", "b">>, <<" ">>,
   [i \in 1..MaxTitle |-> "x"],
   [i \in 1..MaxTitle |-> IF i = 120 THEN "-" ELSE "x"]}

\* names that documents of earlier saves may have taken
DocNameInputs ==
  {<<"F","o","o"," ","(","2","0","2","6","-","0","2","-","1","5",")",".","m","d">>, <<"F","o","o"," ","(","2","0","2","6","-","0","2","-","1","5",")","-","2",".","m","d">>, <<"F","o","o"," ","(","2","0","2","6","-","0","2","-","1","5",")","-","3",".","m","d">>,
   <<"F","o","o"," ","(","2","0","2","6","-","0","2","-","1","6",")",".","m","d">>, <<"e",".","c","o"," ","(","2","0","2","6","-","0","2","-","1","5",")",".","m","d">>, <<"U","n","t","i","t","l","e","d"," ","A","r","t","i","c","l","e"," ","(","2","0","2","6","-","0","2","-","1","6",")",".","m","d">>}

\* vaults of stored documents, whose content does not matter here
DocVaults ==
  {[f \in names |-> [kind |-> "md", fm |-> <<>>, heading |-> <<>>, partial |-> FALSE]] :
     names \in SUBSET DocNameInputs}

\* a file readFile rejects for
UnreadableFile == [kind |-> "unreadable"]

\* a document with these header lines and this body
DocumentOf(fm, body) == [kind |-> "md", fm |-> fm, heading |-> body, partial |-> FALSE]

\* what a file of the Articles directory may hold
ScanFileInputs ==
  {DocumentOf(<< <<"url", text>>, <<"title", <<"F","o","o">>>> >>, <<>>) :
     text \in {<<"h","t","t","p","s",":","/","/","e",".","c","o","/","a">>, <<"h","t","t","p","s",":","/","/","e",".","c","o","/","a"," ">>, <<"\"","h","t","t","p","s",":","/","/","e",".","c","o","/","b",":","\"">>}}
  \cup {DocumentOf(<< <<"title", <<"\"","F","o","o","\"">>>> >>, <<"u","r","l",":"," ","h","t","t","p","s",":","/","/","e",".","c","o","/","a">>),
        TextFile, UnreadableFile}

\* Articles directories of documents, notes and files that cannot be read
ScanVaults ==
  {[f \in names |-> c[f]] :
     names \in SUBSET {<<"a",".","m","d">>, <<"b",".","m","d">>, <<"c",".","t","x","t">>},
     c \in [{<<"a",".","m","d">>, <<"b",".","m","d">>, <<"c",".","t","x","t">>} -> ScanFileInputs]}

InitLib ==
  /\ \/ call = [fn |-> "readQueue", done |-> FALSE] /\ files \in QueueVaults
     \/ /\ call \in {[fn |-> "generateFilename", done |-> FALSE, title |-> t, domain |-> d] :
                        t \in TitleInputs,
                        d \in {<<>>} \cup {extractDomain(u) :
                               u \in {<<"n","o"," ","u","r","l">>, <<"h","t","t","p","s",":","/","/","w","w","w",".","e",".","c","o","/","a","/","b">>,
                                       <<"h","t","t","p","s",":","/","/","[","2","0","0","1",":","d","b","8",":",":","1","]","/","a","/","b">>}}}
        /\ files \in DocVaults
     \/ /\ call \in {[fn |-> "generateReadableTitle", done |-> FALSE, title |-> t] :
                        t \in TitleInputs}
        /\ files = <<>>
     \/ /\ call \in {[fn |-> "findDuplicate", done |-> FALSE, url |-> u, dir |-> d] :
                        u \in {<<"h","t","t","p","s",":","/","/","e",".","c","o","/","a">>, <<"h","t","t","p","s",":","/","/","e",".","c","o","/","b",":">>}, d \in BOOLEAN}
        /\ files \in IF call.dir THEN ScanVaults ELSE {<<>>}
  /\ now \in 0..MaxNow
  /\ cmd = "idle"
  /\ pc = "idle"
  /\ values = [dry_run |-> FALSE, tags |-> Null]
  /\ loc = NoLocals
  /\ out = NoOutput
  /\ hist = NoHistory
  /\ rawUrl = <<>>
  /\ urlOut = [phase |-> "off"]
  /\ tagsArg = Null

\* const queue = await readQueue(vaultPath)
callReadQueue ==
  /\ call.fn = "readQueue" /\ ~call.done
  /\ call' = [fn |-> "readQueue", done |-> TRUE, ret |-> readQueue(files)]
  /\ UNCHANGED <<files, now, cmd, pc, values, loc, out, hist, rawUrl, urlOut, tagsArg>>

\* const { filename, filepath } = generateFilename(title, domain, vaultPath)
callGenerateFilename ==
  /\ call.fn = "generateFilename" /\ ~call.done
  /\ call' = [call EXCEPT !.done = TRUE] @@
             [ret |-> generateFilename(call.title, call.domain, now, files)]
  /\ UNCHANGED <<files, now, cmd, pc, values, loc, out, hist, rawUrl, urlOut, tagsArg>>

\* let readableTitle = generateReadableTitle(title)
callGenerateReadableTitle ==
  /\ call.fn = "generateReadableTitle" /\ ~call.done
  /\ call' = [call EXCEPT !.done = TRUE] @@ [ret |-> generateReadableTitle(call.title)]
  /\ UNCHANGED <<files, now, cmd, pc, values, loc, out, hist, rawUrl, urlOut, tagsArg>>

\* const existing = await findDuplicate(normalizedUrl, vaultPath): null when
\* readdir rejects, else the first match in the order readdir lists the files
callFindDuplicate ==
  /\ call.fn = "findDuplicate" /\ ~call.done
  /\ \/ /\ ~call.dir \/ DuplicatesOf(call.url, files) = {}
        /\ call' = [call EXCEPT !.done = TRUE] @@ [ret |-> [found |-> FALSE]]
     \/ /\ call.dir
        /\ \E file \in DuplicatesOf(call.url, files) :
             call' = [call EXCEPT !.done = TRUE] @@
                     [ret |-> [found |-> TRUE, file |-> file,
                               title |-> HeaderTitle(files[file].fm)]]
  /\ UNCHANGED <<files, now, cmd, pc, values, loc, out, hist, rawUrl, urlOut, tagsArg>>

NextLib ==
  \/ callReadQueue
  \/ callGenerateFilename
  \/ callGenerateReadableTitle
  \/ callFindDuplicate

SpecLib == InitLib /\ [][NextLib]_vars

(***************************************************************************)
(* Properties of these functions, stated over SpecLib.                     *)
(***************************************************************************)
\* C15: readQueue returns the empty list when the queue file is missing, when
\* its text is no JSON or breaks off, and when it holds a JSON value that is
\* not a list; a complete list is returned without the entries that have no url.
C15_ReadNeverFails ==
  call.fn = "readQueue" /\ call.done =>
    /\ queuePath \notin DOMAIN files => call.ret = <<>>
    /\ queuePath \in DOMAIN files =>
         /\ files[queuePath].kind \in {"text", "value"} => call.ret = <<>>
         /\ files[queuePath].kind = "json" /\ ~files[queuePath].intact => call.ret = <<>>
         /\ files[queuePath].kind = "json" /\ files[queuePath].intact =>
              call.ret = SelectSeq(files[queuePath].items, LAMBDA item : "url" \in DOMAIN item)

\* the read of a queue file that breaks off inside a list of two items
C15_Witness ==
  /\ call.fn = "readQueue" /\ call.done
  /\ queuePath \in DOMAIN files
  /\ files[queuePath].kind = "json" /\ ~files[queuePath].intact
  /\ Len(files[queuePath].items) = 2
  /\ call.ret = <<>>

\* the name with the counter n
Suffixed(basename, n) == basename \o <<"-">> \o NumStr(n, 10) \o <<".","m","d">>

\* the dated base name generateFilename starts from
DatedName(title, domain, t) ==
  OrElseName(generateReadableTitle(title), domain) \o <<" ","(">> \o today(t) \o <<")">>

\* C17: the name generateFilename returns is not taken in the vault: it is the
\* dated name itself when that is free, else the dated name with the smallest
\* counter from 2 on whose name is free; beside 'Foo (2026-02-15).md' the title
\* Foo gets 'Foo (2026-02-15)-2.md'.
C17_FirstFreeName ==
  call.fn = "generateFilename" /\ call.done =>
    LET basename == DatedName(call.title, call.domain, now)
    IN  /\ call.ret \notin DOMAIN files
        /\ IF basename \o <<".","m","d">> \notin DOMAIN files THEN call.ret = basename \o <<".","m","d">>
           ELSE \E n \in 2..(Cardinality(DOMAIN files) + 1) :
                  /\ call.ret = Suffixed(basename, n)
                  /\ \A k \in 2..(n - 1) : Suffixed(basename, k) \in DOMAIN files
        /\ call.title = <<"F","o","o">> /\ now = 0 /\ DOMAIN files = {<<"F","o","o"," ","(","2","0","2","6","-","0","2","-","1","5",")",".","m","d">>} =>
             call.ret = <<"F","o","o"," ","(","2","0","2","6","-","0","2","-","1","5",")","-","2",".","m","d">>

\* the name for Foo beside a first and a second document of that name and day
C17_Witness ==
  /\ call.fn = "generateFilename" /\ call.done
  /\ call.title = <<"F","o","o">> /\ now = 0
  /\ {<<"F","o","o"," ","(","2","0","2","6","-","0","2","-","1","5",")",".","m","d">>, <<"F","o","o"," ","(","2","0","2","6","-","0","2","-","1","5",")","-","2",".","m","d">>} \subseteq DOMAIN files
  /\ <<"F","o","o"," ","(","2","0","2","6","-","0","2","-","1","5",")","-","3",".","m","d">> \notin DOMAIN files
  /\ call.ret = <<"F","o","o"," ","(","2","0","2","6","-","0","2","-","1","5",")","-","3",".","m","d">>

\* the name starts with this text
NameStartsWith(name, text) == startsWith(name, text \o <<" ","(">> \o today(now) \o <<")">>)

C19_ReadableTitleClean ==
  call.fn = "generateReadableTitle" /\ call.done /\ call.ret # Null =>
    /\ \A i \in 1..Len(call.ret) : call.ret[i] \notin ControlCs \cup IllegalFilenameCs
    /\ \A i \in 1..(Len(call.ret) - 1) : ~(call.ret[i] = " " /\ call.ret[i + 1] = " ")
    /\ Len(call.ret) > 0 => call.ret[1] # "-" /\ call.ret[Len(call.ret)] # "-"
    /\ Len(call.ret) <= 120


(***************************************************************************)
(* Properties of the branches and of the errors of a save, stated over     *)
(* Spec.                                                                   *)
(***************************************************************************)
\* the fetch of the running attempt has returned without the article
FetchFailed == loc.fetchResult.throws = "" /\ ~loc.fetchResult.success

\* the fetch has returned without the article, with the partial flag and the page's metadata
FetchPartial == FetchFailed /\ loc.fetchResult.partial /\ loc.fetchResult.hasMeta

\* the document a result names, as it is stored
StoredDocument(r) == files[SubSeq(r.file, Len(<<"A","r","t","i","c","l","e","s","/">>) + 1, Len(r.file))]

\* C21: a fetch that returns without the article, with the partial flag set and
\* the page's metadata, leads to a document of status partial with a warning
\* field and to a Success of status partial; a fetch that fails without the
\* flag leads to a Failure, and nothing is written.
C21_PartialBranch ==
  /\ pc \in {"writeFile", "return"} /\ FetchPartial =>
       /\ Variant(loc.result) = "Success" /\ loc.result.status = "partial"
       /\ pc = "writeFile" =>
            /\ HeaderField(loc.fileContent.fm, "status") = "partial"
            /\ HeaderField(loc.fileContent.fm, "warning") # Null
       /\ pc = "return" /\ ~values.dry_run =>
            /\ HeaderField(StoredDocument(loc.result).fm, "status") = "partial"
            /\ HeaderField(StoredDocument(loc.result).fm, "warning") # Null
            /\ StoredDocument(loc.result) = loc.fileContent
  /\ pc \in {"writeFile", "return"} /\ FetchFailed /\ ~FetchPartial =>
       /\ pc = "return"
       /\ Variant(loc.result) = "Failure"
       /\ files = hist.before

\* a save has stored a partial document and returned
C21_Witness ==
  /\ pc = "return" /\ FetchPartial /\ ~values.dry_run
  /\ loc.result.status = "partial"
  /\ HeaderField(StoredDocument(loc.result).fm, "status") = "partial"

\* a save has stored its document and returned
Stored == pc = "return" /\ Variant(loc.result) = "Success" /\ ~values.dry_run

\* the tags in the header of the document just stored
StoredTags == HeaderField(StoredDocument(loc.result).fm, "tags")

YamlScalar(text) ==
  IF Len(text) >= 2 /\ text[1] = "\"" /\ text[Len(text)] = "\""
  THEN SubSeq(text, 2, Len(text) - 1)
  ELSE text

\* C23: the header of every stored document holds a url that is the normalized
\* form of the URL its save was asked for, a tags list that is not empty, and a
\* status complete or partial; a warning stands only in a partial document.
C23_HeaderFields ==
  /\ \A f \in Docs(files) :
       /\ HeaderField(files[f].fm, "url") # Null
       /\ \E s \in hist.saved : YamlScalar(HeaderField(files[f].fm, "url")) = s[1]
       /\ HeaderField(files[f].fm, "tags") # Null
       /\ Len(HeaderField(files[f].fm, "tags")) > 0
       /\ HeaderField(files[f].fm, "status") \in {"complete", "partial"}
       /\ HeaderField(files[f].fm, "warning") # Null =>
            HeaderField(files[f].fm, "status") = "partial"
  /\ Stored =>
       YamlScalar(HeaderField(StoredDocument(loc.result).fm, "url")) = normalizeUrl(loc.url)

\* a complete save of a page without keywords has stored the tag 'untagged'
C23_Witness ==
  /\ Stored
  /\ loc.result.status = "complete"
  /\ loc.result.tags = <<>>
  /\ StoredTags = <<<<"u","n","t","a","g","g","e","d">>>>
  /\ HeaderField(StoredDocument(loc.result).fm, "url") # normalizeUrl(loc.url)

\* the fetch of the running attempt has returned a status that is not OK
FetchNotOk == FetchFailed /\ loc.fetchResult.status \notin 200..299

\* C24: a save whose fetch returns a status that is not OK returns Failure with
\* the message of that status ('Page not found (404)' for a 404) and writes no
\* document; the save command then exits with code 1.
C24_HttpError ==
  /\ pc = "return" /\ FetchNotOk =>
       /\ Variant(loc.result) = "Failure"
       /\ loc.fetchResult.status = 404 => loc.result.error = <<"P","a","g","e"," ","n","o","t"," ","f","o","u","n","d"," ","(","4","0","4",")">>
       /\ loc.fetchResult.status = 418 => loc.result.error = <<"H","T","T","P"," ","e","r","r","o","r"," ","(","4","1","8",")">>
       /\ files = hist.before
  /\ cmd = "save" /\ pc = "exit" /\ FetchNotOk =>
       /\ out.result = loc.result
       /\ Variant(out.result) = "Failure"
       /\ out.exit = 1
       /\ files = hist.before

\* a save of a page that is not found has exited with code 1
C24_Witness ==
  /\ cmd = "save" /\ pc = "exit"
  /\ FetchNotOk /\ loc.fetchResult.status = 404
  /\ out.result.error = <<"P","a","g","e"," ","n","o","t"," ","f","o","u","n","d"," ","(","4","0","4",")">>
  /\ out.exit = 1

\* the result of a fetch that timed out or did not get through
IsFetchError(r) ==
  /\ "error" \in DOMAIN r
  /\ \/ r.error = <<"R","e","q","u","e","s","t"," ","t","i","m","e","d"," ","o","u","t">>
     \/ startsWith(r.error, <<"N","e","t","w","o","r","k"," ","e","r","r","o","r",":"," ">>)

\* C25: in a batch run a fetch that times out or fails on the network gives a
\* Failure for its item alone: the loop goes on, every item of the queue is
\* attempted in the stored order, and the run ends with one result per item.
C25_FetchErrorDoesNotAbort ==
  /\ cmd = "process" /\ pc \in {"saveUrl", "findDuplicate", "fetchArticle", "writeFile", "return"} =>
       /\ loc.idx \in 1..Len(loc.queue)
       /\ Len(loc.results) = loc.idx - 1
       /\ loc.url = loc.queue[loc.idx].url
  /\ cmd = "process" /\ pc = "return" /\ IsFetchError(loc.result) =>
       /\ Variant(loc.result) = "Failure"
       /\ files = hist.before
  /\ cmd = "process" /\ pc \in {"clearQueue", "atomicWrite", "tmpWriting", "rename"} =>
       Len(loc.results) = Len(loc.queue)
  /\ cmd = "process" /\ pc = "exit" /\ out.kind = "process" /\ Len(out.queue) > 0 =>
       /\ out.success /\ out.exit = 0
       /\ Len(out.results) = Len(out.queue)
       /\ \A i \in 1..Len(out.results) :
            IsFetchError(out.results[i]) => Variant(out.results[i]) = "Failure"

\* a batch run whose first fetch timed out has saved its second item
C25_Witness ==
  /\ cmd = "process" /\ pc = "exit" /\ out.kind = "process"
  /\ Len(out.results) = 2
  /\ out.results[1].success = FALSE /\ IsFetchError(out.results[1])
  /\ out.results[1].error = <<"R","e","q","u","e","s","t"," ","t","i","m","e","d"," ","o","u","t">>
  /\ Variant(out.results[2]) = "Success"

\* a step in which the write of the document of a queue item fails
WriteFails == cmd = "process" /\ pc = "writeFile" /\ pc' # "crashed" /\ files' = files

\* C26: when the write of the document fails for an item of a batch run, the
\* save of that item returns a Failure and the run goes on: it is never ended
\* by the error, and it finishes with the results of all its items.
C26_WriteFailureIsPerItem ==
  /\ [][WriteFails =>
          /\ pc' = "return"
          /\ Variant(loc'.result) = "Failure"
          /\ loc'.queue = loc.queue /\ loc'.idx = loc.idx]_vars
  /\ [](cmd = "process" /\ pc = "exit" => out.kind = "process")

\* C27: an error that no step of a save expects, raised for an item of a batch
\* run, ends the run there: the error is printed once at the top level, the
\* process exits with a code other than 0, no result is recorded for the item
\* and no later item is attempted.
C27_UnexpectedErrorAborts ==
  /\ [][WriteFails =>
          /\ pc' = "exit"
          /\ out'.kind = "error" /\ ~out'.success /\ out'.exit # 0
          /\ startsWith(out'.error, <<"U","n","e","x","p","e","c","t","e","d"," ","e","r","r","o","r",":"," ">>)
          /\ loc' = loc]_vars
  /\ [](cmd = "process" /\ pc = "exit" /\ out.kind = "error" =>
          /\ Len(loc.results) = loc.idx - 1
          /\ "results" \notin DOMAIN out)
  /\ [][cmd = "process" /\ pc = "exit" /\ out.kind = "error" => cmd' = "idle" /\ files' = files]_vars

\* a batch run has ended on the error of its first item, with a second item
\* left unattempted
C27_Witness ==
  /\ cmd = "process" /\ pc = "exit" /\ out.kind = "error"
  /\ loc.idx = 1 /\ Len(loc.queue) = 2
  /\ loc.results = <<>>

\* C28: the save command exits with code 0 when its save ends in Success,
\* complete or partial, or in Duplicate, and with another code when the save
\* ends in Failure or an unexpected error is raised.
C28_ExitCodes ==
  cmd = "save" /\ pc = "exit" =>
    /\ out.kind \in {"save", "error"}
    /\ out.kind = "error" => out.exit # 0
    /\ out.kind = "save" =>
         /\ Variant(out.result) \in {"Success", "Duplicate"} => out.exit = 0
         /\ Variant(out.result) = "Failure" => out.exit # 0

\* the documents whose header holds a url field of this value
DocumentsOfUrl(fs, url) ==
  {f \in DOMAIN fs :
     /\ endsWith(f, <<".","m","d">>)
     /\ fs[f].kind = "md"
     /\ \E i \in 1..Len(fs[f].fm) :
          fs[f].fm[i][1] = "url" /\ YamlScalar(trim(fs[f].fm[i][2])) = url}

\* C29: findDuplicate returns a file exactly when a document of the Articles
\* directory has, in its header, a url field whose value equals the normalized
\* URL, and the file it returns is such a document; a url in the body of a
\* document alone gives null.
C29_FindsHeaderUrl ==
  call.fn = "findDuplicate" /\ call.done /\ call.dir =>
    /\ call.ret.found <=> DocumentsOfUrl(files, call.url) # {}
    /\ call.ret.found => call.ret.file \in DocumentsOfUrl(files, call.url)

\* the documents whose header holds, as text, a url field of this value
DocumentsOfUrlText(fs, url) ==
  {f \in DOMAIN fs :
     /\ endsWith(f, <<".","m","d">>)
     /\ fs[f].kind = "md"
     /\ \E i \in 1..Len(fs[f].fm) : fs[f].fm[i][1] = "url" /\ trim(fs[f].fm[i][2]) = url}

\* C30: findDuplicate always returns: null when the Articles directory is
\* missing, and else the outcome of the scan of the files that can be read and
\* have a header, whatever other files the directory holds.
C30_ScanNeverFails ==
  call.fn = "findDuplicate" /\ call.done =>
    /\ "found" \in DOMAIN call.ret
    /\ ~call.dir => ~call.ret.found
    /\ call.dir =>
         /\ call.ret.found <=> DocumentsOfUrlText(files, call.url) # {}
         /\ call.ret.found => call.ret.file \in DocumentsOfUrlText(files, call.url)

\* the scan has passed a file it cannot read and has found the document behind it
C30_Witness ==
  /\ call.fn = "findDuplicate" /\ call.done /\ call.dir
  /\ DOMAIN files = {<<"a",".","m","d">>, <<"b",".","m","d">>, <<"c",".","t","x","t">>}
  /\ files[<<"a",".","m","d">>] = UnreadableFile
  /\ call.ret.found /\ call.ret.file = <<"b",".","m","d">>

(***************************************************************************)
(* Properties of a run of processQueue, stated over Spec.                  *)
(***************************************************************************)
\* the result r is the result of an attempt at the queue item
ResultOf(r, item) == r.url \in {item.url, normalizeUrl(item.url)}

\* the loop of processQueue is at work on an item
InLoop == cmd = "process" /\ pc \in {"saveUrl", "findDuplicate", "fetchArticle", "writeFile", "return"}

\* the items before the one at work have one result each, in their order
OneResultEach ==
  /\ InLoop =>
       /\ loc.idx \in 1..Len(loc.queue)
       /\ Len(loc.results) = loc.idx - 1
       /\ \A j \in 1..Len(loc.results) : ResultOf(loc.results[j], loc.queue[j])
  /\ cmd = "process" /\ pc = "exit" /\ out.kind = "process" =>
       /\ Len(out.results) = Len(out.queue)
       /\ \A j \in 1..Len(out.results) : ResultOf(out.results[j], out.queue[j])

\* a new attempt starts at the next item, when the one before it has returned
NextItemAfterReturn ==
  InLoop /\ pc' = "saveUrl" =>
    /\ pc = "return"
    /\ loc'.idx = loc.idx + 1
    /\ loc'.url = loc.queue[loc.idx + 1].url
    /\ loc'.results = Append(loc.results, loc.result)

\* C31: within one processQueue each stored item is attempted exactly once, in
\* the stored order; the attempt at the next item starts only when the item
\* before it has returned its result, and a failed item is not tried again.
C31_OneAttemptPerItem == []OneResultEach /\ [][NextItemAfterReturn]_vars

\* a batch of two items has ended, the first of them failed
C31_Witness ==
  /\ cmd = "process" /\ pc = "exit" /\ out.kind = "process"
  /\ Len(out.results) = 2
  /\ ~out.results[1].success /\ "duplicate" \notin DOMAIN out.results[1]

\* the number of results of a variant
CountOf(results, variant) == Len(SelectSeq(results, LAMBDA r : Variant(r) = variant))

C34_AbortKeepsQueue ==
  /\ cmd = "process" /\ pc = "exit" /\ out.kind = "error" => readQueue(files) = loc.queue
  /\ cmd = "process" /\ pc = "return" /\ isValidUrl(loc.url)
       /\ normalizeUrl(loc.url) \in hist.aborted =>
         /\ Variant(loc.result) = "Duplicate"
         /\ files = hist.before
  /\ cmd = "process" /\ pc = "exit" /\ out.kind = "process" =>
       \A i \in 1..Len(out.queue) :
         normalizeUrl(out.queue[i].url) \in hist.aborted =>
           ~InQueue(readQueue(files), out.queue[i].url)

\* C35: with --dry-run, processQueue leaves the stored queue as it found it: no
\* item is taken from the queue for an outcome whose document was not stored.
C35_DryRunKeepsQueue ==
  cmd = "process" /\ values.dry_run /\ pc = "exit" /\ out.kind = "process" =>
    readQueue(files) = out.queue

\* C36: the tags list a Success result reports is the tags list written in the
\* header of the document the save stored.
C36_ResultTagsAreStoredTags ==
  Stored => loc.result.tags = StoredTags

(***************************************************************************)
(* Two invocations against one vault. Each is a process of its own: while  *)
(* one of them waits at an await the other may run. The variables cmd, pc, *)
(* values, loc, out and hist are those of the process that runs; call      *)
(* holds those of the process that waits.                                  *)
(***************************************************************************)
\* the state of the process that waits, and whether the two invocations have
\* been under way at the same time
Waiting(c, p, v, l, o, h, overlap) ==
  [fn |-> "waiting", cmd |-> c, pc |-> p, values |-> v, loc |-> l, out |-> o, hist |-> h,
   overlap |-> overlap]

\* the queue file the two invocations find: none, or one item
RaceVaults ==
  {<<>>,
   WriteTo(<<>>, queuePath,
           JsonFile(<<[url |-> <<"h","t","t","p",":","/","/","w","w","w",".","e",".","c","o","/","a","/","?","u","t","m","_","s","o","u","r","c","e","=","x">>, added |-> isoNow(0)]>>, TRUE))}

InitRace ==
  /\ files \in RaceVaults
  /\ now = 0
  /\ cmd = "idle"
  /\ pc = "idle"
  /\ values = [dry_run |-> FALSE, tags |-> Null]
  /\ loc = NoLocals
  /\ out = NoOutput
  /\ hist = NoHistory
  /\ rawUrl = <<>>
  /\ urlOut = [phase |-> "off"]
  /\ call = Waiting("idle", "idle", [dry_run |-> FALSE, tags |-> Null], NoLocals, NoOutput,
                    NoHistory, FALSE)
  /\ tagsArg = Null

\* the process that runs has been started and waits at an await or has exited;
\* the other process, which has not exited, runs from here
Switch ==
  /\ pc # "idle" /\ call.pc # "exit"
  /\ cmd' = call.cmd
  /\ pc' = call.pc
  /\ values' = call.values
  /\ loc' = call.loc
  /\ out' = call.out
  /\ hist' = call.hist
  /\ call' = Waiting(cmd, pc, values, loc, out, hist, call.overlap \/ pc # "exit")
  /\ UNCHANGED <<files, now, rawUrl, urlOut, tagsArg>>

\* atomicWriteOpen with a randomUUID() that the other process has not drawn
atomicWriteOpenFresh ==
  /\ atomicWriteOpen
  /\ loc'.tmpPath # call.loc.tmpPath

NextRace ==
  \/ \E u \in Urls : queueUrl(u)
  \/ addToQueue
  \/ atomicWriteOpenFresh
  \/ atomicWriteFlush
  \/ atomicWriteRename
  \/ \E dry \in BOOLEAN : processQueue(dry)
  \/ processQueueRead
  \/ saveUrlStart
  \/ findDuplicate
  \/ \E r \in FetchOutcomes : fetchArticle(r)
  \/ writeFile
  \/ writeFileThrows
  \/ processQueueNext
  \/ clearQueue
  \/ Switch

SpecRace == InitRace /\ [][NextRace]_vars

\* both invocations have exited
BothDone == pc = "exit" /\ call.fn = "waiting" /\ call.pc = "exit"

\* the invocation was an add that returned added: true
Added(c, o) == c = "queue" /\ o.kind = "queue" /\ o.success

\* the other invocation was a processQueue that read the url from the queue
ReadBy(u, c, l) == c = "process" /\ \E i \in 1..Len(l.queue) : l.queue[i].url = u

\* an add returned added: true, its url is not in the stored queue, and no
\* processQueue took it from there
AddLost(c, o, otherCmd, otherLoc) ==
  /\ Added(c, o)
  /\ ~InQueue(readQueue(files), o.url)
  /\ ~ReadBy(o.url, otherCmd, otherLoc)

\* C32: nothing keeps two invocations against one vault apart: an add that
\* returned added: true is missing from the stored queue in the end only when
\* the two invocations were under way at the same time, and there is such a run.
C32_AddLostOnlyInRace ==
  BothDone /\ ~call.overlap =>
    ~AddLost(cmd, out, call.cmd, call.loc) /\ ~AddLost(call.cmd, call.out, cmd, loc)

\* two adds have both returned added: true and the stored queue lacks one of them
C32_Witness ==
  /\ BothDone /\ call.overlap
  /\ Added(cmd, out) /\ Added(call.cmd, call.out)
  /\ AddLost(call.cmd, call.out, cmd, loc)

(***************************************************************************)
(* A queue that is filled by queue-insert commands and then worked off by  *)
(* repeated processQueue invocations. call tells whether the user still    *)
(* adds URLs.                                                              *)
(***************************************************************************)
\* the vault is empty, or holds the document of an earlier save of a URL
InitDrain ==
  /\ files \in
       {<<>>,
        LET u == <<"h","t","t","p",":","/","/","w","w","w",".","e",".","c","o","/","a","/","?","u","t","m","_","s","o","u","r","c","e","=","x">>
            p == Prepared(u, normalizeUrl(u), extractDomain(normalizeUrl(u)),
                          [throws |-> "", success |-> TRUE, status |-> 200, title |-> <<"F","o","o">>],
                          Null, 0, <<>>)
        IN  WriteTo(<<>>, p.filename, p.fileContent)}
  /\ now = 0
  /\ cmd = "idle"
  /\ pc = "idle"
  /\ values = [dry_run |-> FALSE, tags |-> Null]
  /\ loc = NoLocals
  /\ out = NoOutput
  /\ hist = NoHistory
  /\ rawUrl = <<>>
  /\ urlOut = [phase |-> "off"]
  /\ call = [fn |-> "user", adding |-> TRUE]
  /\ tagsArg = Null

\* the user has queued the last URL: from here on the queue is only processed
StopAdding ==
  /\ cmd = "idle" /\ call.adding
  /\ call' = [call EXCEPT !.adding = FALSE]
  /\ UNCHANGED <<files, now, cmd, pc, values, loc, out, hist, rawUrl, urlOut, tagsArg>>

\* a rejected write of a document is followed up to the first stored document
NextDrain ==
  \/ call.adding /\ \E u \in Urls : queueUrl(u)
  \/ addToQueue
  \/ atomicWriteOpen
  \/ atomicWriteFlush
  \/ atomicWriteRename
  \/ StopAdding
  \/ ~call.adding /\ \E dry \in BOOLEAN : processQueue(dry)
  \/ processQueueRead
  \/ saveUrlStart
  \/ findDuplicate
  \/ \E r \in FetchOutcomes : fetchArticle(r)
  \/ writeFile
  \/ Docs(files) = {} /\ writeFileThrows
  \/ processQueueNext
  \/ clearQueue
  \/ processExit

\* fetchArticle can return a page that is stored whole or in part
StorableFetchEnabled ==
  pc = "fetchArticle" /\ (values.dry_run \/ Cardinality(Docs(files)) < MaxDocs)

\* fetchArticle has returned such a page
StorableFetchDone ==
  pc = "writeFile" \/ (pc = "return" /\ values.dry_run /\ loc.result.success)

\* an invocation goes on when its await resolves, and processQueue is invoked
\* again and again; saveUrl, which is enabled exactly when pc = "saveUrl", runs
\* up to its first await (weak fairness, stated by its enabling condition); a
\* fetch that is tried again and again returns a page that can be stored at
\* some time (strong fairness, stated by its enabling condition and its
\* outcome), and the write of a document that is tried again and again is done
\* at some time
SpecDrain ==
  /\ InitDrain /\ [][NextDrain]_vars
  /\ WF_vars(\/ addToQueue \/ atomicWriteOpen \/ atomicWriteFlush \/ atomicWriteRename
             \/ StopAdding
             \/ ~call.adding /\ \E dry \in BOOLEAN : processQueue(dry)
             \/ processQueueRead \/ findDuplicate
             \/ \E r \in FetchOutcomes : fetchArticle(r)
             \/ processQueueNext \/ clearQueue \/ processExit)
  /\ []<>(pc # "saveUrl")
  /\ <>[](~StorableFetchEnabled) \/ []<>StorableFetchDone
  /\ SF_vars(writeFile)

\* the queue is empty and its file is absent
QueueGone == queuePath \notin DOMAIN files /\ readQueue(files) = <<>>

\* C37: a queue that was built by queue-insert commands alone, which reject an
\* invalid URL and leave the queue as it is, is empty with its file absent at
\* some time, when processQueue is invoked again and again and the save of
\* every queued URL ends in Success or Duplicate at some time.
C37_QueueDrains == ~call.adding ~> QueueGone

\* a second batch has met a duplicate and has left the queue file absent
C37_Witness ==
  /\ ~call.adding
  /\ cmd = "process" /\ pc = "exit" /\ out.kind = "process"
  /\ out.processed = 2 /\ out.duplicates = 1 /\ out.succeeded = 1
  /\ Len(out.queue) = 2
  /\ QueueGone

\* ---------------------------------------------------------------------------
\* Properties of isValidUrl and normalizeUrl together, stated over SpecUrl
\* ---------------------------------------------------------------------------

\* C38: whenever isValidUrl accepts a string, normalizeUrl of that string is
\* not null, so steps 1 and 2 of saveUrl never end at "Could not normalize URL"
C38_ValidNormalizes ==
  urlOut.phase = "validated" =>
    /\ urlOut.valid => urlOut.normalized # Null
    /\ EntryCheck(rawUrl) # "unparseable"

\* an accepted http URL, normalized to https
C38_Witness ==
  /\ urlOut.phase = "validated"
  /\ urlOut.valid
  /\ startsWith(rawUrl, <<"h","t","t","p",":","/","/">>)
  /\ urlOut.normalized # Null
  /\ startsWith(urlOut.normalized, <<"h","t","t","p","s",":","/","/">>)

\* C39: isValidUrl returns true for every well-formed http or https URL whose
\* host is a DNS name (not an IP literal, not a numeric or hex IP encoding)
\* that is not a blocked hostname and does not end in a reserved suffix
C39_RejectsOnlyUnsafe ==
  LET url == ParseURL(rawUrl)
  IN  /\ urlOut.phase = "validated"
      /\ url.ok
      /\ url.scheme \in {<<"h","t","t","p">>, <<"h","t","t","p","s">>}
      /\ Len(url.host) > 0
      /\ url.host[1] # "["
      /\ ~EndsInNumber(url.host)
      /\ url.host \notin BLOCKED_HOSTNAMES
      /\ ~\E suffix \in BLOCKED_SUFFIXES : endsWith(url.host, suffix)
      => urlOut.valid

\* ---------------------------------------------------------------------------
\* The place of a new document, stated over SpecLib
\* ---------------------------------------------------------------------------

\* C40: for every title and every domain that extractDomain produces, the
\* file name generateFilename returns holds no path separator, so the path
\* `${vaultPath}/Articles/${filename}` is a direct child of Articles
C40_NoPathSeparator ==
  call.fn = "generateFilename" /\ call.done =>
    /\ Len(call.ret) > 0
    /\ \A i \in 1..Len(call.ret) : call.ret[i] \notin {"/", "\\"}

\* a title with a slash got its name, and so did an IPv6 domain without a title
C40_Witness ==
  /\ call.fn = "generateFilename" /\ call.done
  /\ \/ call.title = <<"a","/","b",":"," ","c">> /\ startsWith(call.ret, <<"a","-","b","-"," ","c"," ","(">>)
     \/ call.title = Null /\ call.domain = <<"[","2","0","0","1",":","d","b","8",":",":","1","]">>
        /\ startsWith(call.ret, <<"[","2","0","0","1",":","d","b","8",":",":","1","]"," ","(">>)
====
